---- MODULE Spec2Model ----
(***************************************************************************)
(* A model of the edge surveillance pipeline of the drone package:         *)
(*   - the capture / inference threads of VideoProcessor, their two        *)
(*     bounded queues, start() and stop() (drone/video_processor.py),      *)
(*   - the violence decision _analyze_violence (drone/video_processor.py), *)
(*   - the terrain classifier _classify_terrain (drone/geospatial.py),     *)
(*   - the GPS thread, the lock and the readers of GeospatialModule        *)
(*     (drone/geospatial.py),                                              *)
(*   - the retrying transmitter send_event (drone/data_transmitter.py)     *)
(*     against the event sink create_event (server/main.py),               *)
(*   - DroneController: start, process_frame, process_violence_event and   *)
(*     stop (drone/main.py),                                               *)
(*   - the proximity narrative _analyze_spatial_relationships of           *)
(*     GemmaProcessor (drone/llm_processor.py),                            *)
(*   - the elevation window _get_elevation_matrix (drone/geospatial.py),   *)
(*   - AlertManager.notify_clients and its client set                      *)
(*     (backend/app/utils/alert_manager.py).                               *)
(* Each specification runs some of these parts; the variables of the       *)
(* other parts stay at their initial value.                                *)
(*                                                                         *)
(* Numbers: confidences and thresholds are in hundredths (0.6 is 60),      *)
(* terrain scores in tenths (0.8 is 8), slopes in tenths of a degree.      *)
(***************************************************************************)
EXTENDS Integers, Sequences, FiniteSets, TLC

VARIABLES
    \* ---- VideoProcessor ----
    running,        \* self.running
    capture,        \* self.capture: "none", "open", "closed", "released"
    stop_pc,        \* position of the caller of stop() in stop()
    source_frames,  \* number of frames the source holds
    frame_queue,    \* self.frame_queue: the frames, oldest first
    result_queue,   \* self.result_queue: the ProcessedFrames, oldest first
    cap_pc,         \* position of the capture thread in _capture_frames
    cap_frame,      \* the frame the capture thread holds (0: none)
    proc_pc,        \* position of the inference thread in _process_frames
    proc_frame,     \* the frame the inference thread holds (0: none)
    proc_result,    \* the ProcessedFrame the inference thread built
    captured,       \* number of frames the source has delivered
    latest,         \* what get_latest_result returned last
    take_pc,        \* position of the caller of get_latest_result in it
    last_got,       \* history: the frame the inference thread took last
    last_taken,     \* history: the frame of the last result taken
    burst,          \* history: frames read since the frame queue was empty
    burst_ok,       \* history: no get() happened during the burst
    \* ---- _analyze_violence ----
    detections,     \* detections['objects']: the DetectionSet's object sequence
    violence_threshold, \* self.violence_threshold, in hundredths
    vio_pc,         \* "ready" before the call, "done" after it
    violence_scores,    \* the list violence_scores at the end of the call
    violence_detected,  \* what _analyze_violence returned
    \* ---- _classify_terrain ----
    elevation,      \* terrain_data['elevation'], in metres
    slope,          \* terrain_data['slope'], in tenths of a degree
    ter_pc,         \* "ready" before the call, "done" after it
    terrain_type,   \* the returned terrain type
    terrain_confidence, \* the returned confidence, in tenths
    \* ---- DataTransmitter.send_event and the event sink ----
    send_pc,        \* "idle", "post" (an attempt is due), "sleep", "done"
    event,          \* the EventRecord handed to send_event (0: none yet)
    attempt,        \* the loop variable of "for attempt in range(max_retries)"
    send_result,    \* what send_event returned: "none", "true" or "false"
    slept,          \* history: seconds slept in this send_event
    send_log,       \* history: the attempts and sleeps of this send_event
    events_gdf,     \* the sink's rows: [event, image], image false when the
                    \* row was added and the image was not saved
    \* ---- GeospatialModule ----
    geo_running,    \* self.running
    gps_pc,         \* position of the GPS thread in _gps_loop
    fix,            \* number of position fixes the GPS thread has parsed
    current_data,   \* self.current_data: None or a GeospatialData
    lock,           \* holder of self._lock: "free", "gps" or a reader
    rd_pc,          \* position of each reader in get_current_data
    rd_result,      \* what get_current_data returned last to each reader
    geo_stop_pc,    \* position of the caller of stop() in stop()
    \* ---- DroneController ----
    ctl_running,    \* self.running
    ctl_pc,         \* position of the controller in start() and stop()
    ctl_error,      \* the exception start() caught ("none": none)
    pve_pc,         \* position of a process_violence_event call
    pve_geo,        \* its local geo_data
    pve_error,      \* where it raised ("none": nowhere)
    \* ---- GemmaProcessor._analyze_spatial_relationships ----
    nar_objects,    \* detections['objects'] as _format_detections has them
    nar_pc,         \* "ready" before _format_detections, "done" after it
    relationships,  \* the list relationships, with the positions of each pair
    \* ---- GeospatialModule._get_elevation_matrix ----
    win_pc,         \* "ready", "cell" (in the loops), "done" (returned)
    win_i,          \* the loop variable i
    win_j,          \* the loop variable j
    matrix,         \* the local matrix
    sampled,        \* history: the cells whose raster lookup went through
    \* ---- AlertManager ----
    connected_clients,  \* self.connected_clients
    broken,         \* the clients whose send_json raises
    not_pc,         \* "ready", "next" (the for statement), "send", "done",
                    \* "raised" (notify_clients raised)
    to_visit,       \* the clients the set iterator has yet to yield
    client,         \* the loop variable client
    size_changed,   \* the set changed size since the iterator was made
    notified,       \* history: the clients that were sent the alert
    clients_at_call \* history: connected_clients when notify_clients began

pipeVars == <<running, capture, stop_pc, source_frames, frame_queue,
              result_queue, cap_pc, cap_frame, proc_pc, proc_frame,
              proc_result, captured, latest, take_pc, last_got, last_taken,
              burst, burst_ok>>

vioVars == <<detections, violence_threshold, vio_pc, violence_scores,
             violence_detected>>

terVars == <<elevation, slope, ter_pc, terrain_type, terrain_confidence>>

sendVars == <<send_pc, event, attempt, send_result, slept, send_log,
              events_gdf>>

geoVars == <<geo_running, gps_pc, fix, current_data, lock, rd_pc, rd_result,
             geo_stop_pc>>

ctlVars == <<ctl_running, ctl_pc, ctl_error, pve_pc, pve_geo, pve_error>>

narVars == <<nar_objects, nar_pc, relationships>>

winVars == <<win_pc, win_i, win_j, matrix, sampled>>

alertVars == <<connected_clients, broken, not_pc, to_visit, client,
               size_changed, notified, clients_at_call>>

vars == <<pipeVars, vioVars, terVars, sendVars, geoVars, ctlVars, narVars,
          winVars, alertVars>>

Min(a, b) == IF a < b THEN a ELSE b

(***************************************************************************)
(* VideoProcessor: capture thread, inference thread, result consumer        *)
(***************************************************************************)

\* Queue(maxsize=10), for both queues
K == 10

\* the frame source delivers at most this many frames
MaxFrames == 12

None == [none |-> TRUE]

\* a full() that never says full
NeverFull(q) == FALSE

\* an empty() that answers true whatever the queue holds
AlwaysEmpty(q) == TRUE

\* Queue.full() and Queue.empty()
Full(q) == Len(q) >= K
Empty(q) == Len(q) = 0

\* the state start(), stop() and the flag checks share
lifeVars == <<running, capture, stop_pc, source_frames>>

\* the locals of the capture thread, and the source it reads
capVars == <<cap_pc, cap_frame, captured>>

\* the locals of the inference thread
procVars == <<proc_pc, proc_frame, proc_result, last_got>>

\* the caller of get_latest_result
takeVars == <<latest, take_pc, last_taken>>

burstVars == <<burst, burst_ok>>

\* the VideoProcessor after __init__, before a source of n frames
PipeInitWith(n) ==
    /\ running = FALSE
    /\ capture = "none"
    /\ stop_pc = "idle"
    /\ source_frames = n
    /\ frame_queue = <<>>
    /\ result_queue = <<>>
    /\ cap_pc = "unstarted"
    /\ cap_frame = 0
    /\ proc_pc = "unstarted"
    /\ proc_frame = 0
    /\ proc_result = None
    /\ captured = 0
    /\ latest = None
    /\ take_pc = "idle"
    /\ last_got = 0
    /\ last_taken = 0
    /\ burst = <<>>
    /\ burst_ok = TRUE

PipeInit == PipeInitWith(MaxFrames)

\* cv2.VideoCapture(video_source): a handle, opened or not; it does not raise
CaptureHandles == {"open", "closed"}

\* start(): sets the flag, makes the capture handle, starts both threads
Start ==
    /\ cap_pc = "unstarted" /\ proc_pc = "unstarted"
    /\ stop_pc \in {"idle", "done"}
    /\ running' = TRUE
    /\ capture' \in CaptureHandles
    /\ cap_pc' = "loop"
    /\ proc_pc' = "loop"
    /\ UNCHANGED <<stop_pc, source_frames, frame_queue, result_queue,
                   cap_frame, captured, proc_frame, proc_result, last_got,
                   takeVars, burstVars>>

\* the value stop() would leave in the flag if it did not clear it
FlagKept == TRUE

\* stop(): the value it assigns to self.running
FlagCleared == FALSE

\* stop(): self.running = False
Stop ==
    /\ stop_pc \in {"idle", "done"}
    /\ running' = FlagCleared
    /\ stop_pc' = "release"
    /\ UNCHANGED <<capture, source_frames, frame_queue, result_queue, capVars,
                   procVars, takeVars, burstVars>>

\* stop(): if hasattr(self, 'capture'): self.capture.release()
StopRelease ==
    /\ stop_pc = "release"
    /\ capture' = IF capture = "none" THEN "none" ELSE "released"
    /\ stop_pc' = "join_capture"
    /\ UNCHANGED <<running, source_frames, frame_queue, result_queue, capVars,
                   procVars, takeVars, burstVars>>

\* a join() made without the hasattr check: it needs a thread, and one that
\* ended
JoinNeedsThread(pc) == pc = "exit"

\* if hasattr(self, t): self.t.join() returns when start() never made the
\* thread t or when t ended
JoinReturns(pc) == pc \in {"unstarted", "exit"}

\* stop(): if hasattr(self, 'capture_thread'): self.capture_thread.join()
StopJoinCapture ==
    /\ stop_pc = "join_capture"
    /\ JoinReturns(cap_pc)
    /\ stop_pc' = "join_process"
    /\ UNCHANGED <<running, capture, source_frames, frame_queue, result_queue,
                   capVars, procVars, takeVars, burstVars>>

\* stop(): if hasattr(self, 'process_thread'): self.process_thread.join()
StopJoinProcess ==
    /\ stop_pc = "join_process"
    /\ JoinReturns(proc_pc)
    /\ stop_pc' = "done"
    /\ UNCHANGED <<running, capture, source_frames, frame_queue, result_queue,
                   capVars, procVars, takeVars, burstVars>>

\* whether a thread could step if it shared the event loop with a send_event
\* whose position is s: not while that send_event waits
RunsOnEventLoop(s) == s \notin {"post", "sleep"}

\* whether a thread started by start() (threading.Thread) can step while the
\* send_event of the controller is at position s: it has a thread of its own
ThreadRuns(s) == TRUE

\* _capture_frames: while self.running
CapLoop ==
    /\ cap_pc = "loop"
    /\ ThreadRuns(send_pc)
    /\ cap_pc' = IF running THEN "read" ELSE "exit"
    /\ UNCHANGED <<lifeVars, frame_queue, result_queue, cap_frame, captured,
                   procVars, takeVars, burstVars>>

\* ret, frame = self.capture.read(), ret true: the next frame of the source
CapReadOk ==
    /\ cap_pc = "read"
    /\ ThreadRuns(send_pc)
    /\ capture = "open"
    /\ captured < source_frames
    /\ captured' = captured + 1
    /\ cap_frame' = captured + 1
    /\ cap_pc' = "check_full"
    /\ UNCHANGED <<lifeVars, frame_queue, result_queue, procVars, takeVars,
                   burstVars>>

\* ret false (no frame, handle not opened or released): warning, continue
CapReadFail ==
    /\ cap_pc = "read"
    /\ ThreadRuns(send_pc)
    /\ cap_pc' = "loop"
    /\ UNCHANGED <<lifeVars, frame_queue, result_queue, cap_frame, captured,
                   procVars, takeVars, burstVars>>

\* if not self.frame_queue.full(): go on to put()
CapCheckNotFull ==
    /\ cap_pc = "check_full"
    /\ ThreadRuns(send_pc)
    /\ ~Full(frame_queue)
    /\ cap_pc' = "put"
    /\ UNCHANGED <<lifeVars, frame_queue, result_queue, cap_frame, captured,
                   procVars, takeVars, burstVars>>

\* what the else branch leaves in the queue when it drops drop-oldest
DropOldest(q, f) == Append(Tail(q), f)

\* what the else branch ("Frame queue full, skipping frame") leaves in the queue
SkipFrame(q, f) == q

\* else: the frame is skipped; then sleep(0.01)
CapSkip ==
    /\ cap_pc = "check_full"
    /\ ThreadRuns(send_pc)
    /\ Full(frame_queue)
    /\ frame_queue' = SkipFrame(frame_queue, cap_frame)
    /\ burst' = IF burst_ok THEN Append(burst, cap_frame) ELSE burst
    /\ cap_frame' = 0
    /\ cap_pc' = "loop"
    /\ UNCHANGED <<lifeVars, result_queue, captured, procVars, takeVars,
                   burst_ok>>

\* self.frame_queue.put((frame, time.time())): blocks while the queue is full
CapPut ==
    /\ cap_pc = "put"
    /\ ThreadRuns(send_pc)
    /\ Len(frame_queue) < K
    /\ frame_queue' = Append(frame_queue, cap_frame)
    /\ burst' = IF burst_ok THEN Append(burst, cap_frame) ELSE burst
    /\ cap_frame' = 0
    /\ cap_pc' = "loop"
    /\ UNCHANGED <<lifeVars, result_queue, captured, procVars, takeVars,
                   burst_ok>>

\* _process_frames: while self.running
ProcLoop ==
    /\ proc_pc = "loop"
    /\ ThreadRuns(send_pc)
    /\ proc_pc' = IF running THEN "check_empty" ELSE "exit"
    /\ UNCHANGED <<lifeVars, frame_queue, result_queue, capVars, proc_frame,
                   proc_result, last_got, takeVars, burstVars>>

\* if self.frame_queue.empty(): sleep(0.01); continue
ProcCheckEmpty ==
    /\ proc_pc = "check_empty"
    /\ ThreadRuns(send_pc)
    /\ proc_pc' = IF Empty(frame_queue) THEN "loop" ELSE "get"
    /\ UNCHANGED <<lifeVars, frame_queue, result_queue, capVars, proc_frame,
                   proc_result, last_got, takeVars, burstVars>>

\* what get() returns when the queue hands out its newest item
LifoGet(q) == q[Len(q)]

\* Queue.get() on a non-empty queue: the oldest item
QueueGet(q) == Head(q)

\* frame, timestamp = self.frame_queue.get(): blocks while the queue is empty
ProcGet ==
    /\ proc_pc = "get"
    /\ ThreadRuns(send_pc)
    /\ Len(frame_queue) > 0
    /\ proc_frame' = QueueGet(frame_queue)
    /\ last_got' = QueueGet(frame_queue)
    /\ frame_queue' = Tail(frame_queue)
    /\ burst' = <<>>
    /\ burst_ok' = (Len(frame_queue) = 1)
    /\ proc_pc' = "infer"
    /\ UNCHANGED <<lifeVars, result_queue, capVars, proc_result, takeVars>>

\* The scene: the frames of the stream on which the detection model and
\* _analyze_violence, both deterministic in the frame, answer "violence".
ViolentFrame(f) == f % 2 = 1

\* preprocess, model call, post-process, _analyze_violence: a ProcessedFrame
ProcInferOk ==
    /\ proc_pc = "infer"
    /\ ThreadRuns(send_pc)
    /\ proc_result' = [frame |-> proc_frame,
                       violence_detected |-> ViolentFrame(proc_frame)]
    /\ proc_pc' = "check_full"
    /\ UNCHANGED <<lifeVars, frame_queue, result_queue, capVars, proc_frame,
                   last_got, takeVars, burstVars>>

\* an exception in the try block: control goes to the except clause
ProcInferError ==
    /\ proc_pc = "infer"
    /\ ThreadRuns(send_pc)
    /\ proc_pc' = "except"
    /\ UNCHANGED <<lifeVars, frame_queue, result_queue, capVars, proc_frame,
                   proc_result, last_got, takeVars, burstVars>>

\* what the except clause does when it ends the thread instead
Reraise(pc) == "exit"

\* except Exception: logger.error(...); continue
Continue(pc) == "loop"

ProcExcept ==
    /\ proc_pc = "except"
    /\ ThreadRuns(send_pc)
    /\ proc_frame' = 0
    /\ proc_pc' = Continue(proc_pc)
    /\ UNCHANGED <<lifeVars, frame_queue, result_queue, capVars, proc_result,
                   last_got, takeVars, burstVars>>

\* if not self.result_queue.full(): go on to put(); else nothing is put
ProcCheckFull ==
    /\ proc_pc = "check_full"
    /\ ThreadRuns(send_pc)
    /\ proc_pc' = IF Full(result_queue) THEN "dropped" ELSE "put"
    /\ UNCHANGED <<lifeVars, frame_queue, result_queue, capVars, proc_frame,
                   proc_result, last_got, takeVars, burstVars>>

\* what is left in the result queue when a full queue makes room for r
PutDropOldest(q, r) == Append(Tail(q), r)

\* what is left in the result queue when the if is false: r is not put
DropResult(q, r) == q

\* the if was false: the iteration ends with the result not put
ProcDrop ==
    /\ proc_pc = "dropped"
    /\ ThreadRuns(send_pc)
    /\ result_queue' = DropResult(result_queue, proc_result)
    /\ proc_frame' = 0
    /\ proc_result' = None
    /\ proc_pc' = "loop"
    /\ UNCHANGED <<lifeVars, frame_queue, capVars, last_got, takeVars,
                   burstVars>>

\* self.result_queue.put(result): blocks while the queue is full
ProcPut ==
    /\ proc_pc = "put"
    /\ ThreadRuns(send_pc)
    /\ Len(result_queue) < K
    /\ result_queue' = Append(result_queue, proc_result)
    /\ proc_frame' = 0
    /\ proc_result' = None
    /\ proc_pc' = "loop"
    /\ UNCHANGED <<lifeVars, frame_queue, capVars, last_got, takeVars,
                   burstVars>>

\* a get() that hands out an item and leaves it in the queue
Peeked(q) == q

\* what Queue.get() leaves in the queue: the item handed out is removed
Remaining(q) == Tail(q)

\* get_latest_result(): None when the queue is empty, else result_queue.get()
GetLatestResult ==
    /\ IF Empty(result_queue)
         THEN /\ latest' = None
              /\ UNCHANGED <<result_queue, last_taken>>
         ELSE /\ latest' = QueueGet(result_queue)
              /\ last_taken' = QueueGet(result_queue).frame
              /\ result_queue' = Remaining(result_queue)
    /\ UNCHANGED <<lifeVars, frame_queue, capVars, procVars, take_pc,
                   burstVars>>

\* get_latest_result() step by step. if self.result_queue.empty(): return None
GetLatestResultNone ==
    /\ take_pc = "idle"
    /\ Empty(result_queue)
    /\ latest' = None
    /\ UNCHANGED <<lifeVars, frame_queue, result_queue, capVars, procVars,
                   take_pc, last_taken, burstVars>>

\* the queue is not empty: on to the return statement
GetLatestResultCheck ==
    /\ take_pc = "idle"
    /\ ~Empty(result_queue)
    /\ take_pc' = "get"
    /\ UNCHANGED <<lifeVars, frame_queue, result_queue, capVars, procVars,
                   latest, last_taken, burstVars>>

\* return self.result_queue.get(): blocks while the queue is empty
GetLatestResultGet ==
    /\ take_pc = "get"
    /\ Len(result_queue) > 0
    /\ latest' = QueueGet(result_queue)
    /\ last_taken' = QueueGet(result_queue).frame
    /\ result_queue' = Remaining(result_queue)
    /\ take_pc' = "idle"
    /\ UNCHANGED <<lifeVars, frame_queue, capVars, procVars, burstVars>>


(***************************************************************************)
(* VideoProcessor._analyze_violence                                        *)
(***************************************************************************)

\* at most this many objects in a DetectionSet
MaxObjs == 2

\* self.classes.get(class_id, 'unknown')
ClassName(class_id) ==
    CASE class_id = 0 -> "person"
      [] class_id = 1 -> "fighting"
      [] class_id = 2 -> "punching"
      [] class_id = 3 -> "kicking"
      [] class_id = 4 -> "weapon"
      [] class_id = 5 -> "knife"
      [] class_id = 6 -> "gun"
      [] class_id = 7 -> "aggressive_gesture"
      [] class_id = 8 -> "fallen_person"
      [] class_id = 9 -> "group_violence"
      [] OTHER -> "unknown"

\* a violence class set that also counts fallen_person (class 8)
violence_classes_with_fallen == {1, 2, 3, 7, 8, 9}

violence_classes == {1, 2, 3, 7, 9}

\* a weapon class set without gun (class 6)
weapon_classes_without_gun == {4, 5}

weapon_classes == {4, 5, 6}

\* One entry of detections['objects'], as _process_predictions builds it:
\* class_name follows from class_id; bbox is [x1, y1, x2, y2] in pixels.
Object(c, conf, box) ==
    [class_id |-> c, class_name |-> ClassName(c), confidence |-> conf,
     bbox |-> box]

\* The bounding boxes of the modelled person detections: a large box, a small
\* box inside it, a small box and a box of zero size at the large box's
\* center, and two boxes whose centers are exactly 0.2 of the first one's
\* diagonal apart.
BoxA == <<0, 0, 20, 20>>
BoxB == <<11, 11, 13, 13>>
BoxC == <<9, 9, 11, 11>>
BoxD == <<10, 10, 10, 10>>
BoxE == <<0, 0, 30, 40>>
BoxF == <<24, 19, 26, 21>>

\* The modelled detections: persons at the boxes above, every violence and
\* weapon class below, at and above the default threshold, and two classes
\* that trigger nothing (fallen_person, and 10, which has no name).
Objects ==
    {Object(0, 90, b) : b \in {BoxA, BoxB, BoxC, BoxD, BoxE, BoxF}}
      \cup {Object(0, 60, BoxA)}
      \cup {Object(c, conf, BoxA) : c \in {1, 2, 3, 7, 9}, conf \in {70, 90}}
      \cup {Object(c, conf, BoxA) : c \in {4, 5, 6}, conf \in {30, 90}}
      \cup {Object(c, 90, BoxA) : c \in {8, 10}}

DetectionSets == UNION {[1..n -> Objects] : n \in 0..MaxObjs}

Thresholds == {50, 60, 70}

\* a distance normalized by the diagonal of a 100 x 100 frame
CalculateBoxDistanceInFrame(bbox1, bbox2) ==
    LET cx1 == bbox1[1] + bbox1[3]
        cy1 == bbox1[2] + bbox1[4]
        cx2 == bbox2[1] + bbox2[3]
        cy2 == bbox2[2] + bbox2[4]
    IN  [d2 |-> (cx1 - cx2) * (cx1 - cx2) + (cy1 - cy2) * (cy1 - cy2),
         n2 |-> 4 * (100 * 100 + 100 * 100)]

\* _calculate_box_distance: distance / sqrt(frame_width**2 + frame_height**2),
\* kept as the pair of squares (both times 4, the centers being half
\* integers): the value is sqrt(d2 / n2), and nan or inf when n2 = 0.
CalculateBoxDistance(bbox1, bbox2) ==
    LET cx1 == bbox1[1] + bbox1[3]
        cy1 == bbox1[2] + bbox1[4]
        cx2 == bbox2[1] + bbox2[3]
        cy2 == bbox2[2] + bbox2[4]
        frame_width == bbox1[3] - bbox1[1]
        frame_height == bbox1[4] - bbox1[2]
    IN  [d2 |-> (cx1 - cx2) * (cx1 - cx2) + (cy1 - cy2) * (cy1 - cy2),
         n2 |-> 4 * (frame_width * frame_width + frame_height * frame_height)]

\* distance < 0.2 (false for nan and inf: a first box of zero size)
BelowProximity(dist) == dist.n2 > 0 /\ 25 * dist.d2 < dist.n2

\* an inner loop that looks only at the objects after objs[i]
RECURSIVE ProximityScoresAfter(_, _, _)
ProximityScoresAfter(objs, i, j) ==
    IF j > Len(objs) THEN <<>>
    ELSE (IF /\ j > i
             /\ objs[j].class_name = "person"
             /\ objs[j] # objs[i]
             /\ BelowProximity(CalculateBoxDistance(objs[i].bbox, objs[j].bbox))
          THEN <<60>> ELSE <<>>)
         \o ProximityScoresAfter(objs, i, j + 1)

\* an inner loop whose suspicion score is 0.8
RECURSIVE ProximityScoresHigh(_, _, _)
ProximityScoresHigh(objs, i, j) ==
    IF j > Len(objs) THEN <<>>
    ELSE (IF /\ objs[j].class_name = "person"
             /\ objs[j] # objs[i]
             /\ BelowProximity(CalculateBoxDistance(objs[i].bbox, objs[j].bbox))
          THEN <<80>> ELSE <<>>)
         \o ProximityScoresHigh(objs, i, j + 1)

\* the inner loop over other_obj for the person objs[i]: one 0.6 for each
\* other_obj that is a person, differs from obj as a dict, and is close
RECURSIVE ProximityScores(_, _, _)
ProximityScores(objs, i, j) ==
    IF j > Len(objs) THEN <<>>
    ELSE (IF /\ objs[j].class_name = "person"
             /\ objs[j] # objs[i]
             /\ BelowProximity(CalculateBoxDistance(objs[i].bbox, objs[j].bbox))
          THEN <<60>> ELSE <<>>)
         \o ProximityScores(objs, i, j + 1)

\* the outer loop: what the objects from the i-th on append to violence_scores
RECURSIVE ScoresFrom(_, _)
ScoresFrom(objs, i) ==
    IF i > Len(objs) THEN <<>>
    ELSE (IF objs[i].class_id \in violence_classes
          THEN <<objs[i].confidence>> ELSE <<>>)
         \o (IF objs[i].class_id \in weapon_classes
             THEN <<objs[i].confidence>> ELSE <<>>)
         \o (IF objs[i].class_name = "person"
             THEN ProximityScores(objs, i, 1) ELSE <<>>)
         \o ScoresFrom(objs, i + 1)

ViolenceScores(objs) == ScoresFrom(objs, 1)

\* a weapon test that looks at the first object only
HasWeaponsFirst(objs) == Len(objs) > 0 /\ objs[1].class_id \in weapon_classes

HasWeapons(objs) == \E i \in 1..Len(objs) : objs[i].class_id \in weapon_classes

\* the score appended last instead of the highest
LastOf(scores) == scores[Len(scores)]

MaxOf(scores) ==
    CHOOSE m \in {scores[i] : i \in 1..Len(scores)} :
        \A i \in 1..Len(scores) : scores[i] <= m

\* a decision that compares with >=
DecisionAtLeast(scores, has_weapons, threshold) ==
    MaxOf(scores) >= threshold \/ has_weapons

\* a decision that forgets the weapon override
DecisionWithoutOverride(scores, has_weapons, threshold) ==
    MaxOf(scores) > threshold

\* return max_score > self.violence_threshold or has_weapons
Decision(scores, has_weapons, threshold) ==
    MaxOf(scores) > threshold \/ has_weapons

AnalyzeViolence(objs, threshold) ==
    LET scores == ViolenceScores(objs)
    IN  IF Len(objs) = 0 THEN FALSE
        ELSE IF Len(scores) > 0
             THEN Decision(scores, HasWeapons(objs), threshold)
             ELSE FALSE

VioInit ==
    /\ detections \in DetectionSets
    /\ violence_threshold \in Thresholds
    /\ vio_pc = "ready"
    /\ violence_scores = <<>>
    /\ violence_detected = FALSE

VioIdle ==
    /\ detections = <<>>
    /\ violence_threshold = 70
    /\ vio_pc = "ready"
    /\ violence_scores = <<>>
    /\ violence_detected = FALSE

\* one call of _analyze_violence(detections)
AnalyzeViolenceCall ==
    /\ vio_pc = "ready"
    /\ violence_scores' =
          (IF Len(detections) = 0 THEN <<>> ELSE ViolenceScores(detections))
    /\ violence_detected' = AnalyzeViolence(detections, violence_threshold)
    /\ vio_pc' = "done"
    /\ UNCHANGED <<detections, violence_threshold>>

(***************************************************************************)
(* GeospatialModule._classify_terrain                                      *)
(***************************************************************************)

\* the sampled inputs lie within this distance of a threshold
Margin == 1

\* class TerrainType(Enum), in definition order
TerrainType ==
    <<"urban", "suburban", "rural", "forest", "mountain", "water",
      "grassland", "desert">>

ELEVATION_THRESHOLDS == [low |-> 0, medium |-> 500, high |-> 1500,
                         mountain |-> 2500]

\* in tenths of a degree
SLOPE_THRESHOLDS == [flat |-> 20, gentle |-> 50, moderate |-> 150,
                     steep |-> 300]

Elevations ==
    {10, 3000} \cup UNION {(t - Margin)..(t + Margin) : t \in {0, 500, 1500, 2500}}

Slopes ==
    {0, 15, 100, 450} \cup UNION {(t - Margin)..(t + Margin) : t \in {20, 50, 150, 300}}

\* scores[t] += w
Credit(scores, t, w) == [scores EXCEPT ![t] = @ + w]

\* an urban rule that also asks for an elevation above the low threshold
UrbanConditionAboveLow(e, s) ==
    /\ e > ELEVATION_THRESHOLDS.low
    /\ e < ELEVATION_THRESHOLDS.medium
    /\ s < SLOPE_THRESHOLDS.gentle

UrbanCondition(e, s) ==
    e < ELEVATION_THRESHOLDS.medium /\ s < SLOPE_THRESHOLDS.gentle

\* a mountain rule that asks for both triggers
MountainConditionBoth(e, s) ==
    e > ELEVATION_THRESHOLDS.mountain /\ s > SLOPE_THRESHOLDS.steep

MountainCondition(e, s) ==
    e > ELEVATION_THRESHOLDS.mountain \/ s > SLOPE_THRESHOLDS.steep

\* a suburban rule that stops at the gentle threshold
SuburbanConditionGentle(e, s) ==
    e < ELEVATION_THRESHOLDS.medium /\ s < SLOPE_THRESHOLDS.gentle

SuburbanCondition(e, s) ==
    e < ELEVATION_THRESHOLDS.medium /\ s < SLOPE_THRESHOLDS.moderate

\* scores left as the rules made them
NoFloorDefault(scores) == scores

\* if all(score < 0.4 for score in scores.values()): scores[RURAL] += 0.5
FloorDefault(scores) ==
    IF \A i \in DOMAIN scores : scores[i] < 4
    THEN Credit(scores, 3, 5) ELSE scores

\* the scores after the four rules, keyed by the terrain type's position
TerrainScores(e, s) ==
    LET s0 == [i \in 1..Len(TerrainType) |-> 0]
        s1 == IF UrbanCondition(e, s)
              THEN Credit(Credit(s0, 1, 8), 2, 4) ELSE s0
        s2 == IF MountainCondition(e, s) THEN Credit(s1, 5, 8) ELSE s1
        s3 == IF SuburbanCondition(e, s)
              THEN Credit(Credit(s2, 2, 6), 3, 4) ELSE s2
    IN  FloorDefault(s3)

\* max(scores.items(), key=lambda x: x[1])[0]: the first of the highest
ArgMax(scores) ==
    CHOOSE i \in DOMAIN scores :
        /\ \A j \in DOMAIN scores : scores[j] <= scores[i]
        /\ \A j \in DOMAIN scores : j < i => scores[j] < scores[i]

ClassifyTerrain(e, s) ==
    LET scores == TerrainScores(e, s)
        best == ArgMax(scores)
    IN  [terrain_type |-> TerrainType[best], confidence |-> scores[best]]

TerInit ==
    /\ elevation \in Elevations
    /\ slope \in Slopes
    /\ ter_pc = "ready"
    /\ terrain_type = "none"
    /\ terrain_confidence = 0

TerIdle ==
    /\ elevation = 10
    /\ slope = 15
    /\ ter_pc = "ready"
    /\ terrain_type = "none"
    /\ terrain_confidence = 0

\* one call of _classify_terrain(terrain_data)
ClassifyTerrainCall ==
    /\ ter_pc = "ready"
    /\ terrain_type' = ClassifyTerrain(elevation, slope).terrain_type
    /\ terrain_confidence' = ClassifyTerrain(elevation, slope).confidence
    /\ ter_pc' = "done"
    /\ UNCHANGED <<elevation, slope>>

(***************************************************************************)
(* DataTransmitter.send_event against the sink's create_event               *)
(***************************************************************************)

\* at most this many EventRecords are handed to send_event
MaxEvents == 2

\* self.retry_delay, in seconds
retry_delay == 1

\* self.max_retries
max_retries == 3

\* What one POST can come to. The sink's create_event adds the row and then
\* saves the image: "stored" is both done and status 200; "stored_error" is
\* the row added, save_image raising, and so status 500; "rejected" is a
\* request refused before any row is added (422, or 500 from the first
\* lines). "conn_error" is an aiohttp.ClientError with nothing received by
\* the sink; "other_error" is any other exception of the POST (a timeout).
\* "created" is a sink that records the event and answers 201.
Outcomes ==
    {"stored", "created", "stored_error", "rejected", "conn_error", "other_error"}

\* response.status of an outcome that has a response (0: none)
Status(o) ==
    CASE o = "stored" -> 200
      [] o = "created" -> 201
      [] o = "stored_error" -> 500
      [] o = "rejected" -> 422
      [] OTHER -> 0

\* create_event: the rows of the sink after the request of this outcome
CreateEvent(rows, e, o) ==
    CASE o \in {"stored", "created"} -> Append(rows, [event |-> e, image |-> TRUE])
      [] o = "stored_error" -> Append(rows, [event |-> e, image |-> FALSE])
      [] OTHER -> rows

\* if response.status == 200: return True
Success(status) == status = 200

\* a backoff that also sleeps after the last attempt
SleepsAfterEvery(a) == a < max_retries

\* if attempt < self.max_retries - 1: await asyncio.sleep(...)
SleepsAfter(a) == a < max_retries - 1

\* a backoff of retry_delay * attempt, the loop variable counting from 0
BackoffFromZero(a) == retry_delay * a

\* self.retry_delay * (attempt + 1)
Backoff(a) == retry_delay * (a + 1)

SendInit ==
    /\ send_pc = "idle"
    /\ event = 0
    /\ attempt = 0
    /\ send_result = "none"
    /\ slept = 0
    /\ send_log = <<>>
    /\ events_gdf = <<>>

\* send_event(event_data) with a complete record: the payload is built and
\* the retry loop is entered
SendEvent ==
    /\ send_pc \in {"idle", "done"}
    /\ event < MaxEvents
    /\ event' = event + 1
    /\ attempt' = 0
    /\ send_result' = "none"
    /\ slept' = 0
    /\ send_log' = <<>>
    /\ send_pc' = "post"
    /\ UNCHANGED events_gdf

\* send_event(event_data) with a field missing: building the payload raises,
\* the outer except returns False
SendEventBadRecord ==
    /\ send_pc \in {"idle", "done"}
    /\ event < MaxEvents
    /\ event' = event + 1
    /\ attempt' = 0
    /\ send_result' = "false"
    /\ slept' = 0
    /\ send_log' = <<>>
    /\ send_pc' = "done"
    /\ UNCHANGED events_gdf

\* where the loop goes after a failed attempt: to the sleep, or out of the
\* loop to "return False"
AfterFailure(a) ==
    IF SleepsAfter(a) THEN [pc |-> "sleep", result |-> "none"]
    ELSE IF a + 1 < max_retries THEN [pc |-> "post", result |-> "none"]
    ELSE [pc |-> "done", result |-> "false"]

\* an exception handled like a connection error: the loop goes on
RetriedAfterError(a) == AfterFailure(a)

\* an exception of the attempt that is no aiohttp.ClientError leaves the loop
\* for the outer handler: except Exception: log, return False
AfterOtherError(a) == [pc |-> "done", result |-> "false"]

\* one pass of the loop body up to the sleep: the POST and its outcome
Post ==
    /\ send_pc = "post"
    /\ \E o \in Outcomes :
          /\ events_gdf' = CreateEvent(events_gdf, event, o)
          /\ send_log' = Append(send_log, [post |-> o, status |-> Status(o)])
          /\ IF o = "other_error"
               THEN /\ send_pc' = AfterOtherError(attempt).pc
                    /\ send_result' = AfterOtherError(attempt).result
                    /\ UNCHANGED attempt
               ELSE IF o # "conn_error" /\ Success(Status(o))
               THEN /\ send_pc' = "done"
                    /\ send_result' = "true"
                    /\ UNCHANGED attempt
               ELSE /\ send_pc' = AfterFailure(attempt).pc
                    /\ send_result' = AfterFailure(attempt).result
                    /\ attempt' = IF SleepsAfter(attempt) THEN attempt
                                  ELSE attempt + 1
    /\ UNCHANGED <<event, slept>>

\* await asyncio.sleep(self.retry_delay * (attempt + 1)), then the next pass
\* of the loop, or its end
Sleep ==
    /\ send_pc = "sleep"
    /\ slept' = slept + Backoff(attempt)
    /\ send_log' = Append(send_log, [sleep |-> Backoff(attempt)])
    /\ attempt' = attempt + 1
    /\ send_pc' = IF attempt + 1 < max_retries THEN "post" ELSE "done"
    /\ send_result' = IF attempt + 1 < max_retries THEN "none" ELSE "false"
    /\ UNCHANGED <<event, events_gdf>>

(***************************************************************************)
(* GeospatialModule: the GPS thread, the lock and the readers              *)
(***************************************************************************)

\* the GPS thread parses at most this many position fixes
MaxFixes == 2

\* the callers of get_current_data
Readers == {"r1", "r2"}

\* the GeospatialData built from fix number n: every field comes from n
GeospatialData(n) ==
    [latitude |-> n, longitude |-> n, altitude |-> n, terrain_type |-> n,
     timestamp |-> n]

GeoInit ==
    /\ geo_running = FALSE
    /\ gps_pc = "unstarted"
    /\ fix = 0
    /\ current_data = None
    /\ lock = "free"
    /\ rd_pc = [r \in Readers |-> "idle"]
    /\ rd_result = [r \in Readers |-> None]
    /\ geo_stop_pc = "idle"

readerVars == <<rd_pc, rd_result>>

\* start(): sets the flag and starts the GPS thread
GeoStart ==
    /\ gps_pc = "unstarted"
    /\ geo_running' = TRUE
    /\ gps_pc' = "open"
    /\ UNCHANGED <<fix, current_data, lock, readerVars, geo_stop_pc>>

\* _gps_loop: with serial.Serial(self.gps_port, 9600, timeout=1) as ser
GpsOpen ==
    /\ gps_pc = "open"
    /\ gps_pc' = "loop"
    /\ UNCHANGED <<geo_running, fix, current_data, lock, readerVars,
                   geo_stop_pc>>

\* serial.Serial raises (no such port): the exception ends the GPS thread
GpsOpenError ==
    /\ gps_pc = "open"
    /\ gps_pc' = "crashed"
    /\ UNCHANGED <<geo_running, fix, current_data, lock, readerVars,
                   geo_stop_pc>>

\* while self.running
GpsLoop ==
    /\ gps_pc = "loop"
    /\ gps_pc' = IF geo_running THEN "readline" ELSE "exit"
    /\ UNCHANGED <<geo_running, fix, current_data, lock, readerVars,
                   geo_stop_pc>>

\* ser.readline() gives a $GNGGA line that parses: _update_location(msg)
GpsReadFix ==
    /\ gps_pc = "readline"
    /\ fix < MaxFixes
    /\ fix' = fix + 1
    /\ gps_pc' = "update"
    /\ UNCHANGED <<geo_running, current_data, lock, readerVars, geo_stop_pc>>

\* a timeout, another sentence, or an exception of readline or parse
GpsReadOther ==
    /\ gps_pc = "readline"
    /\ gps_pc' = "sleep"
    /\ UNCHANGED <<geo_running, fix, current_data, lock, readerVars,
                   geo_stop_pc>>

\* _update_location up to the with: elevation, slope, terrain, land use
GpsUpdate ==
    /\ gps_pc = "update"
    /\ gps_pc' = "acquire"
    /\ UNCHANGED <<geo_running, fix, current_data, lock, readerVars,
                   geo_stop_pc>>

\* a handler that drops the published snapshot
ClearedOnFailure(old) == None

\* except Exception as e: print(...): the handler assigns nothing
KeepSnapshot(old) == old

\* an exception there: caught in _gps_loop, printed
GpsUpdateError ==
    /\ gps_pc = "update"
    /\ current_data' = KeepSnapshot(current_data)
    /\ gps_pc' = "sleep"
    /\ UNCHANGED <<geo_running, fix, lock, readerVars, geo_stop_pc>>

\* with self._lock: blocks while a reader holds the lock
GpsAcquire ==
    /\ gps_pc = "acquire"
    /\ lock = "free"
    /\ lock' = "gps"
    /\ gps_pc' = "assign"
    /\ UNCHANGED <<geo_running, fix, current_data, readerVars, geo_stop_pc>>

\* what current_data is after an update that overwrites one field in place
AssignInPlace(old, new) ==
    IF old = None THEN new ELSE [old EXCEPT !.latitude = new.latitude]

\* self.current_data = GeospatialData(...): the attribute names a new object
Assign(old, new) == new

\* the assignment, then the end of the with: the lock is released
GpsAssign ==
    /\ gps_pc = "assign"
    /\ current_data' = Assign(current_data, GeospatialData(fix))
    /\ lock' = "free"
    /\ gps_pc' = "sleep"
    /\ UNCHANGED <<geo_running, fix, readerVars, geo_stop_pc>>

\* time.sleep(0.1)
GpsSleep ==
    /\ gps_pc = "sleep"
    /\ gps_pc' = "loop"
    /\ UNCHANGED <<geo_running, fix, current_data, lock, readerVars,
                   geo_stop_pc>>

\* get_current_data(): with self._lock, blocks while the lock is held
GetCurrentDataAcquire(r) ==
    /\ rd_pc[r] = "idle"
    /\ lock = "free"
    /\ lock' = r
    /\ rd_pc' = [rd_pc EXCEPT ![r] = "locked"]
    /\ UNCHANGED <<geo_running, gps_pc, fix, current_data, rd_result,
                   geo_stop_pc>>

\* return self.current_data, and the end of the with
GetCurrentDataReturn(r) ==
    /\ rd_pc[r] = "locked"
    /\ rd_result' = [rd_result EXCEPT ![r] = current_data]
    /\ lock' = "free"
    /\ rd_pc' = [rd_pc EXCEPT ![r] = "idle"]
    /\ UNCHANGED <<geo_running, gps_pc, fix, current_data, geo_stop_pc>>

\* stop(): self.running = False
GeoStop ==
    /\ geo_stop_pc \in {"idle", "done"}
    /\ geo_running' = FlagCleared
    /\ geo_stop_pc' = "join"
    /\ UNCHANGED <<gps_pc, fix, current_data, lock, readerVars>>

\* stop(): if hasattr(self, 'gps_thread'): self.gps_thread.join()
GeoStopJoin ==
    /\ geo_stop_pc = "join"
    /\ gps_pc \in {"unstarted", "exit", "crashed"}
    /\ geo_stop_pc' = "done"
    /\ UNCHANGED <<geo_running, gps_pc, fix, current_data, lock, readerVars>>


(***************************************************************************)
(* DroneController: start, process_frame, process_violence_event, stop     *)
(***************************************************************************)

\* the source of a controller run holds this many frames
DroneFrames == 1

\* the methods class VideoProcessor defines
VideoProcessorMethods ==
    {"__init__", "start", "_capture_frames", "_process_frames",
     "_preprocess_frame", "_process_predictions", "_analyze_violence",
     "_calculate_box_distance", "get_latest_result", "stop", "__del__"}

\* the methods class GemmaProcessor defines
GemmaProcessorMethods ==
    {"__init__", "_format_detections", "_analyze_spatial_relationships",
     "_calculate_box_distance"}

CtlInit ==
    /\ ctl_running = FALSE
    /\ ctl_pc = "init"
    /\ ctl_error = "none"
    /\ pve_pc = "idle"
    /\ pve_geo = None
    /\ pve_error = "none"

pveVars == <<pve_pc, pve_geo, pve_error>>

\* start(): self.running = True
CtlStart ==
    /\ ctl_pc = "init"
    /\ ctl_running' = TRUE
    /\ ctl_pc' = "vp_start"
    /\ UNCHANGED <<ctl_error, pveVars>>

\* start(): self.video_processor.start()
CtlVpStart ==
    /\ ctl_pc = "vp_start"
    /\ Start
    /\ ctl_pc' = "geo_start"
    /\ UNCHANGED <<ctl_running, ctl_error, pveVars>>

\* start(): self.geo_module.start()
CtlGeoStart ==
    /\ ctl_pc = "geo_start"
    /\ GeoStart
    /\ ctl_pc' = "loop"
    /\ UNCHANGED <<ctl_running, ctl_error, pveVars>>

\* start(): while self.running
CtlLoop ==
    /\ ctl_pc = "loop"
    /\ ctl_pc' = IF ctl_running THEN "process_frame" ELSE "returned"
    /\ UNCHANGED <<ctl_running, ctl_error, pveVars>>

\* process_frame(): self.video_processor.get_latest_frame() looks up a method
\* VideoProcessor does not define; the AttributeError leaves process_frame
\* and the try block of start()
CtlProcessFrame ==
    /\ ctl_pc = "process_frame"
    /\ "get_latest_frame" \notin VideoProcessorMethods
    /\ ctl_error' = "AttributeError"
    /\ ctl_pc' = "except"
    /\ UNCHANGED <<ctl_running, pveVars>>

\* start(): except Exception: logger.error(...); self.stop(), which begins
\* with self.running = False
CtlExcept ==
    /\ ctl_pc = "except"
    /\ ctl_running' = FlagCleared
    /\ ctl_pc' = "vp_stop"
    /\ UNCHANGED <<ctl_error, pveVars>>

\* stop(): self.video_processor.stop() is called
CtlVpStop ==
    /\ ctl_pc = "vp_stop"
    /\ Stop
    /\ ctl_pc' = "vp_stopping"
    /\ UNCHANGED <<ctl_running, ctl_error, pveVars>>

\* stop(): video_processor.stop() has returned; self.geo_module.stop() is called
CtlGeoStop ==
    /\ ctl_pc = "vp_stopping"
    /\ stop_pc = "done"
    /\ GeoStop
    /\ ctl_pc' = "geo_stopping"
    /\ UNCHANGED <<ctl_running, ctl_error, pveVars>>

\* stop(): geo_module.stop() has returned; stop() and start() return
CtlReturn ==
    /\ ctl_pc = "geo_stopping"
    /\ geo_stop_pc = "done"
    /\ ctl_pc' = "returned"
    /\ UNCHANGED <<ctl_running, ctl_error, pveVars>>

\* process_violence_event(frame_data): geo_data = get_current_data()
PveGetGeo ==
    /\ pve_pc \in {"idle", "raised"}
    /\ lock = "free"
    /\ pve_geo' = current_data
    /\ pve_error' = "none"
    /\ pve_pc' = "build"
    /\ UNCHANGED <<ctl_running, ctl_pc, ctl_error>>

\* event_data = {...}: geo_data.latitude on None raises AttributeError
PveBuildNoSnapshot ==
    /\ pve_pc = "build"
    /\ pve_geo = None
    /\ pve_error' = "event_data"
    /\ pve_pc' = "raised"
    /\ UNCHANGED <<ctl_running, ctl_pc, ctl_error, pve_geo>>

\* event_data = {...} with the fields of the snapshot
PveBuild ==
    /\ pve_pc = "build"
    /\ pve_geo # None
    /\ pve_pc' = "analyze"
    /\ UNCHANGED <<ctl_running, ctl_pc, ctl_error, pve_geo, pve_error>>

\* await self.llm_processor.analyze_event(event_data) looks up a method
\* GemmaProcessor does not define; the AttributeError leaves the coroutine
PveAnalyze ==
    /\ pve_pc = "analyze"
    /\ "analyze_event" \notin GemmaProcessorMethods
    /\ pve_error' = "analyze_event"
    /\ pve_pc' = "raised"
    /\ UNCHANGED <<ctl_running, ctl_pc, ctl_error, pve_geo>>


(***************************************************************************)
(* GemmaProcessor._analyze_spatial_relationships                           *)
(***************************************************************************)

\* height, width = original_frame.shape[:2]: the bounding boxes are in the
\* pixels of the original frame, here a frame of 100 x 100
FrameShape == [height |-> 100, width |-> 100]

\* GemmaProcessor._calculate_box_distance: the distance of the two centers in
\* pixels, divided by nothing; kept as its square times 4
CenterDistance(bbox1, bbox2) ==
    LET cx1 == bbox1[1] + bbox1[3]
        cy1 == bbox1[2] + bbox1[4]
        cx2 == bbox2[1] + bbox2[3]
        cy2 == bbox2[2] + bbox2[4]
    IN  (cx1 - cx2) * (cx1 - cx2) + (cy1 - cy2) * (cy1 - cy2)

\* if distance < 0.2, for the distance d with d2 = 4 d^2: 100 d^2 < 4
CloseProximity(d2) == 25 * d2 < 4

\* for i, obj1 in enumerate(objects): for obj2 in objects[i+1:]: the pairs of
\* positions (i, j) with i < j, in the order the two loops take them
RECURSIVE PairsFrom(_, _, _)
PairsFrom(i, j, n) ==
    IF i > n THEN <<>>
    ELSE IF j > n THEN PairsFrom(i + 1, i + 2, n)
         ELSE <<<<i, j>>>> \o PairsFrom(i, j + 1, n)

\* one entry of relationships: "Detected <obj1> is in close proximity to
\* <obj2>", with the positions of the two objects
Relationship(objs, p) ==
    [obj1 |-> p[1], obj2 |-> p[2],
     text |-> <<objs[p[1]].class_name, objs[p[2]].class_name>>]

SpatialRelationships(objs) ==
    LET close(p) ==
            CloseProximity(CenterDistance(objs[p[1]].bbox, objs[p[2]].bbox))
        pairs == SelectSeq(PairsFrom(1, 2, Len(objs)), close)
    IN  [k \in 1..Len(pairs) |-> Relationship(objs, pairs[k])]

NarInit ==
    /\ nar_objects \in DetectionSets
    /\ nar_pc = "ready"
    /\ relationships = <<>>

NarIdle ==
    /\ nar_objects = <<>>
    /\ nar_pc = "ready"
    /\ relationships = <<>>

\* _format_detections with two objects or more: the spatial analysis runs
FormatDetectionsSpatial ==
    /\ nar_pc = "ready"
    /\ Len(nar_objects) >= 2
    /\ relationships' = SpatialRelationships(nar_objects)
    /\ nar_pc' = "done"
    /\ UNCHANGED nar_objects

\* _format_detections with fewer: _analyze_spatial_relationships is not called
FormatDetectionsFew ==
    /\ nar_pc = "ready"
    /\ Len(nar_objects) < 2
    /\ relationships' = <<>>
    /\ nar_pc' = "done"
    /\ UNCHANGED nar_objects


(***************************************************************************)
(* GeospatialModule._get_elevation_matrix                                  *)
(***************************************************************************)

\* window_size: int = 3
window_size == 3

\* the cells (i, j) of the window
Cells == (0..(window_size - 1)) \X (0..(window_size - 1))

\* what terrain_data.sample gives for the cell (i, j) when it gives a value:
\* a different elevation for every cell, none of them 0
Raster(i, j) == 100 + 10 * i + j

\* a fallback that takes the cell before in the same row
FallbackSameRow(m, i, j) == IF j > 0 THEN m[<<i, j - 1>>] ELSE 0

\* matrix[i-1, j] if i > 0 else 0
Fallback(m, i, j) == IF i > 0 THEN m[<<i - 1, j>>] ELSE 0

WinInit ==
    /\ win_pc = "ready"
    /\ win_i = 0
    /\ win_j = 0
    /\ matrix = [c \in Cells |-> 0]
    /\ sampled = {}

WinIdle == WinInit

\* matrix = np.zeros((window_size, window_size)), and the loops begin
GetElevationMatrix ==
    /\ win_pc = "ready"
    /\ matrix' = [c \in Cells |-> 0]
    /\ win_pc' = "cell"
    /\ UNCHANGED <<win_i, win_j, sampled>>

\* the end of the loop body: the next j, the next i, or return matrix
NextCell ==
    IF win_j + 1 < window_size
    THEN win_j' = win_j + 1 /\ UNCHANGED <<win_i, win_pc>>
    ELSE IF win_i + 1 < window_size
         THEN win_i' = win_i + 1 /\ win_j' = 0 /\ UNCHANGED win_pc
         ELSE win_pc' = "done" /\ UNCHANGED <<win_i, win_j>>

\* terrain_data.sample gives the elevation: matrix[i, j] = elevation
SampleCell ==
    /\ win_pc = "cell"
    /\ matrix' = [matrix EXCEPT ![<<win_i, win_j>>] = Raster(win_i, win_j)]
    /\ sampled' = sampled \cup {<<win_i, win_j>>}
    /\ NextCell

\* the lookup raises: except Exception
SampleCellError ==
    /\ win_pc = "cell"
    /\ matrix' = [matrix EXCEPT
                    ![<<win_i, win_j>>] = Fallback(matrix, win_i, win_j)]
    /\ UNCHANGED sampled
    /\ NextCell


(***************************************************************************)
(* AlertManager: register_client, remove_client, notify_clients            *)
(***************************************************************************)

\* at most this many WebSocket clients
MaxClients == 3

Clients == 1..MaxClients

AlertInit ==
    /\ connected_clients = {}
    /\ broken \in SUBSET Clients
    /\ not_pc = "ready"
    /\ to_visit = {}
    /\ client = 0
    /\ size_changed = FALSE
    /\ notified = {}
    /\ clients_at_call = {}

AlertIdle ==
    /\ connected_clients = {}
    /\ broken = {}
    /\ not_pc = "ready"
    /\ to_visit = {}
    /\ client = 0
    /\ size_changed = FALSE
    /\ notified = {}
    /\ clients_at_call = {}

\* register_client(websocket): self.connected_clients.add(websocket)
RegisterClient(c) ==
    /\ not_pc = "ready"
    /\ c \notin connected_clients
    /\ connected_clients' = connected_clients \cup {c}
    /\ UNCHANGED <<broken, not_pc, to_visit, client, size_changed, notified,
                   clients_at_call>>

\* remove_client(websocket): self.connected_clients.remove(websocket)
RemoveClient(c) == connected_clients \ {c}

\* notify_clients(alert): alert_data is built, the for statement makes the
\* iterator of the set
NotifyClients ==
    /\ not_pc = "ready"
    /\ not_pc' = "next"
    /\ to_visit' = connected_clients
    /\ clients_at_call' = connected_clients
    /\ size_changed' = FALSE
    /\ UNCHANGED <<connected_clients, broken, client, notified>>

\* the iterator yields a client it has not yielded, in the order of the set
NotifyNextClient(c) ==
    /\ not_pc = "next"
    /\ ~size_changed
    /\ c \in to_visit
    /\ client' = c
    /\ to_visit' = to_visit \ {c}
    /\ not_pc' = "send"
    /\ UNCHANGED <<connected_clients, broken, size_changed, notified,
                   clients_at_call>>

\* the iterator is exhausted: notify_clients returns
NotifyReturn ==
    /\ not_pc = "next"
    /\ ~size_changed
    /\ to_visit = {}
    /\ not_pc' = "done"
    /\ UNCHANGED <<connected_clients, broken, to_visit, client, size_changed,
                   notified, clients_at_call>>

\* the iterator of a set that changed size raises RuntimeError, in the for
\* statement and so outside the try: notify_clients raises
NotifyRuntimeError ==
    /\ not_pc = "next"
    /\ size_changed
    /\ not_pc' = "raised"
    /\ UNCHANGED <<connected_clients, broken, to_visit, client, size_changed,
                   notified, clients_at_call>>

\* await client.send_json(alert_data) goes through
SendJson ==
    /\ not_pc = "send"
    /\ client \notin broken
    /\ notified' = notified \cup {client}
    /\ not_pc' = "next"
    /\ UNCHANGED <<connected_clients, broken, to_visit, client, size_changed,
                   clients_at_call>>

\* it raises: except Exception prints and calls self.remove_client(client)
SendJsonError ==
    /\ not_pc = "send"
    /\ client \in broken
    /\ connected_clients' = RemoveClient(client)
    /\ size_changed' = TRUE
    /\ not_pc' = "next"
    /\ UNCHANGED <<broken, to_visit, client, notified, clients_at_call>>


(***************************************************************************)
(* The specifications                                                      *)
(***************************************************************************)

PipeIdle == PipeInit

SendIdle == SendInit

GeoIdle == GeoInit

CtlIdle == CtlInit

Init ==
    /\ PipeInit /\ VioIdle /\ TerIdle /\ SendIdle /\ GeoIdle /\ CtlIdle
    /\ NarIdle /\ WinIdle /\ AlertIdle

\* what the steps of the VideoProcessor leave alone
pipeRest ==
    <<vioVars, terVars, sendVars, geoVars, ctlVars, narVars, winVars,
      alertVars>>

Next ==
    \/ Start /\ UNCHANGED pipeRest
    \/ CapLoop /\ UNCHANGED pipeRest
    \/ CapReadOk /\ UNCHANGED pipeRest
    \/ CapReadFail /\ UNCHANGED pipeRest
    \/ CapCheckNotFull /\ UNCHANGED pipeRest
    \/ CapSkip /\ UNCHANGED pipeRest
    \/ CapPut /\ UNCHANGED pipeRest
    \/ ProcLoop /\ UNCHANGED pipeRest
    \/ ProcCheckEmpty /\ UNCHANGED pipeRest
    \/ ProcGet /\ UNCHANGED pipeRest
    \/ ProcInferOk /\ UNCHANGED pipeRest
    \/ ProcInferError /\ UNCHANGED pipeRest
    \/ ProcExcept /\ UNCHANGED pipeRest
    \/ ProcCheckFull /\ UNCHANGED pipeRest
    \/ ProcDrop /\ UNCHANGED pipeRest
    \/ ProcPut /\ UNCHANGED pipeRest
    \/ GetLatestResult /\ UNCHANGED pipeRest

\* the started VideoProcessor: the capture thread, the inference thread and
\* the consumer of the results, on a source long enough to fill both queues
Spec == Init /\ [][Next]_vars

InitViolence ==
    /\ VioInit /\ PipeIdle /\ TerIdle /\ SendIdle /\ GeoIdle /\ CtlIdle
    /\ NarIdle /\ WinIdle /\ AlertIdle

NextViolence ==
    AnalyzeViolenceCall
        /\ UNCHANGED <<pipeVars, terVars, sendVars, geoVars, ctlVars, narVars,
                       winVars, alertVars>>

\* _analyze_violence on every bounded DetectionSet and threshold
SpecViolence == InitViolence /\ [][NextViolence]_vars

InitTerrain ==
    /\ TerInit /\ PipeIdle /\ VioIdle /\ SendIdle /\ GeoIdle /\ CtlIdle
    /\ NarIdle /\ WinIdle /\ AlertIdle

NextTerrain ==
    ClassifyTerrainCall
        /\ UNCHANGED <<pipeVars, vioVars, sendVars, geoVars, ctlVars, narVars,
                       winVars, alertVars>>

\* _classify_terrain on elevations and slopes around every threshold
SpecTerrain == InitTerrain /\ [][NextTerrain]_vars

InitSend ==
    /\ SendInit /\ PipeIdle /\ VioIdle /\ TerIdle /\ GeoIdle /\ CtlIdle
    /\ NarIdle /\ WinIdle /\ AlertIdle

\* what the steps of send_event leave alone
sendRest ==
    <<pipeVars, vioVars, terVars, geoVars, ctlVars, narVars, winVars,
      alertVars>>

NextSend ==
    \/ SendEvent /\ UNCHANGED sendRest
    \/ SendEventBadRecord /\ UNCHANGED sendRest
    \/ Post /\ UNCHANGED sendRest
    \/ Sleep /\ UNCHANGED sendRest

\* send_event called for one EventRecord after another, against the sink
SpecSend == InitSend /\ [][NextSend]_vars

InitGeo ==
    /\ GeoInit /\ PipeIdle /\ VioIdle /\ TerIdle /\ SendIdle /\ CtlIdle
    /\ NarIdle /\ WinIdle /\ AlertIdle

\* what the steps of the GeospatialModule leave alone
geoRest ==
    <<pipeVars, vioVars, terVars, sendVars, ctlVars, narVars, winVars,
      alertVars>>

NextGeo ==
    \/ GeoStart /\ UNCHANGED geoRest
    \/ GpsOpen /\ UNCHANGED geoRest
    \/ GpsOpenError /\ UNCHANGED geoRest
    \/ GpsLoop /\ UNCHANGED geoRest
    \/ GpsReadFix /\ UNCHANGED geoRest
    \/ GpsReadOther /\ UNCHANGED geoRest
    \/ GpsUpdate /\ UNCHANGED geoRest
    \/ GpsUpdateError /\ UNCHANGED geoRest
    \/ GpsAcquire /\ UNCHANGED geoRest
    \/ GpsAssign /\ UNCHANGED geoRest
    \/ GpsSleep /\ UNCHANGED geoRest
    \/ \E r \in Readers : GetCurrentDataAcquire(r) /\ UNCHANGED geoRest
    \/ \E r \in Readers : GetCurrentDataReturn(r) /\ UNCHANGED geoRest
    \/ GeoStop /\ UNCHANGED geoRest
    \/ GeoStopJoin /\ UNCHANGED geoRest

\* the GeospatialModule: its GPS thread, readers of get_current_data, stop()
SpecGeo == InitGeo /\ [][NextGeo]_vars

InitDrone ==
    /\ PipeInitWith(DroneFrames) /\ GeoInit /\ CtlInit
    /\ VioIdle /\ TerIdle /\ SendIdle
    /\ NarIdle /\ WinIdle /\ AlertIdle

\* what a controller run leaves alone
droneRest ==
    <<vioVars, terVars, sendVars, narVars, winVars,
      alertVars>>

\* a source of fewer than K frames fills neither queue: CapSkip and ProcDrop
\* stay disabled in a controller run
NextDrone ==
    \/ CtlStart /\ UNCHANGED <<pipeVars, geoVars, droneRest>>
    \/ CtlVpStart /\ UNCHANGED <<geoVars, droneRest>>
    \/ CtlGeoStart /\ UNCHANGED <<pipeVars, droneRest>>
    \/ CtlLoop /\ UNCHANGED <<pipeVars, geoVars, droneRest>>
    \/ CtlProcessFrame /\ UNCHANGED <<pipeVars, geoVars, droneRest>>
    \/ CtlExcept /\ UNCHANGED <<pipeVars, geoVars, droneRest>>
    \/ CtlVpStop /\ UNCHANGED <<geoVars, droneRest>>
    \/ StopRelease /\ UNCHANGED <<geoVars, ctlVars, droneRest>>
    \/ StopJoinCapture /\ UNCHANGED <<geoVars, ctlVars, droneRest>>
    \/ StopJoinProcess /\ UNCHANGED <<geoVars, ctlVars, droneRest>>
    \/ CtlGeoStop /\ UNCHANGED <<pipeVars, droneRest>>
    \/ GeoStopJoin /\ UNCHANGED <<pipeVars, ctlVars, droneRest>>
    \/ CtlReturn /\ UNCHANGED <<pipeVars, geoVars, droneRest>>
    \/ CapLoop /\ UNCHANGED <<geoVars, ctlVars, droneRest>>
    \/ CapReadOk /\ UNCHANGED <<geoVars, ctlVars, droneRest>>
    \/ CapReadFail /\ UNCHANGED <<geoVars, ctlVars, droneRest>>
    \/ CapCheckNotFull /\ UNCHANGED <<geoVars, ctlVars, droneRest>>
    \/ CapPut /\ UNCHANGED <<geoVars, ctlVars, droneRest>>
    \/ ProcLoop /\ UNCHANGED <<geoVars, ctlVars, droneRest>>
    \/ ProcCheckEmpty /\ UNCHANGED <<geoVars, ctlVars, droneRest>>
    \/ ProcGet /\ UNCHANGED <<geoVars, ctlVars, droneRest>>
    \/ ProcInferOk /\ UNCHANGED <<geoVars, ctlVars, droneRest>>
    \/ ProcInferError /\ UNCHANGED <<geoVars, ctlVars, droneRest>>
    \/ ProcExcept /\ UNCHANGED <<geoVars, ctlVars, droneRest>>
    \/ ProcCheckFull /\ UNCHANGED <<geoVars, ctlVars, droneRest>>
    \/ ProcPut /\ UNCHANGED <<geoVars, ctlVars, droneRest>>
    \/ GpsOpen /\ UNCHANGED <<pipeVars, ctlVars, droneRest>>
    \/ GpsOpenError /\ UNCHANGED <<pipeVars, ctlVars, droneRest>>
    \/ GpsLoop /\ UNCHANGED <<pipeVars, ctlVars, droneRest>>
    \/ GpsReadFix /\ UNCHANGED <<pipeVars, ctlVars, droneRest>>
    \/ GpsReadOther /\ UNCHANGED <<pipeVars, ctlVars, droneRest>>
    \/ GpsUpdate /\ UNCHANGED <<pipeVars, ctlVars, droneRest>>
    \/ GpsUpdateError /\ UNCHANGED <<pipeVars, ctlVars, droneRest>>
    \/ GpsAcquire /\ UNCHANGED <<pipeVars, ctlVars, droneRest>>
    \/ GpsAssign /\ UNCHANGED <<pipeVars, ctlVars, droneRest>>
    \/ GpsSleep /\ UNCHANGED <<pipeVars, ctlVars, droneRest>>

\* a run of DroneController.start() with its three threads
SpecDrone == InitDrone /\ [][NextDrone]_vars

InitEvent ==
    /\ GeoInit /\ CtlInit /\ PipeIdle /\ VioIdle /\ TerIdle /\ SendIdle
    /\ NarIdle /\ WinIdle /\ AlertIdle

\* what the GPS thread and process_violence_event together leave alone
eventRest ==
    <<pipeVars, vioVars, terVars, sendVars, narVars, winVars,
      alertVars>>

NextEvent ==
    \/ GeoStart /\ UNCHANGED <<ctlVars, eventRest>>
    \/ GpsOpen /\ UNCHANGED <<ctlVars, eventRest>>
    \/ GpsOpenError /\ UNCHANGED <<ctlVars, eventRest>>
    \/ GpsLoop /\ UNCHANGED <<ctlVars, eventRest>>
    \/ GpsReadFix /\ UNCHANGED <<ctlVars, eventRest>>
    \/ GpsReadOther /\ UNCHANGED <<ctlVars, eventRest>>
    \/ GpsUpdate /\ UNCHANGED <<ctlVars, eventRest>>
    \/ GpsUpdateError /\ UNCHANGED <<ctlVars, eventRest>>
    \/ GpsAcquire /\ UNCHANGED <<ctlVars, eventRest>>
    \/ GpsAssign /\ UNCHANGED <<ctlVars, eventRest>>
    \/ GpsSleep /\ UNCHANGED <<ctlVars, eventRest>>
    \/ PveGetGeo /\ UNCHANGED <<geoVars, eventRest>>
    \/ PveBuildNoSnapshot /\ UNCHANGED <<geoVars, eventRest>>
    \/ PveBuild /\ UNCHANGED <<geoVars, eventRest>>
    \/ PveAnalyze /\ UNCHANGED <<geoVars, eventRest>>

\* process_violence_event called for violent ProcessedFrames while the GPS
\* thread of the started GeospatialModule publishes snapshots
SpecEvent == InitEvent /\ [][NextEvent]_vars

\* the steps of the capture thread, of the inference thread, of the GPS
\* thread and of the controller in a controller run
CapThread ==
    (CapLoop \/ CapReadOk \/ CapReadFail \/ CapCheckNotFull \/ CapPut)
        /\ UNCHANGED <<geoVars, ctlVars, droneRest>>

ProcThread ==
    (ProcLoop \/ ProcCheckEmpty \/ ProcGet \/ ProcInferOk \/ ProcInferError
        \/ ProcExcept \/ ProcCheckFull \/ ProcPut)
        /\ UNCHANGED <<geoVars, ctlVars, droneRest>>

GpsThread ==
    (GpsOpen \/ GpsOpenError \/ GpsLoop \/ GpsReadFix \/ GpsReadOther
        \/ GpsUpdate \/ GpsUpdateError \/ GpsAcquire \/ GpsAssign \/ GpsSleep)
        /\ UNCHANGED <<pipeVars, ctlVars, droneRest>>

Controller ==
    \/ (CtlStart \/ CtlLoop \/ CtlProcessFrame \/ CtlExcept \/ CtlReturn)
           /\ UNCHANGED <<pipeVars, geoVars, droneRest>>
    \/ (CtlVpStart \/ CtlVpStop) /\ UNCHANGED <<geoVars, droneRest>>
    \/ (StopRelease \/ StopJoinCapture \/ StopJoinProcess)
           /\ UNCHANGED <<geoVars, ctlVars, droneRest>>
    \/ (CtlGeoStart \/ CtlGeoStop) /\ UNCHANGED <<pipeVars, droneRest>>
    \/ GeoStopJoin /\ UNCHANGED <<pipeVars, ctlVars, droneRest>>

\* the controller run under a scheduler that lets every thread that can step
\* step in the end: the frame read, the model call and readline return
FairDrone ==
    /\ InitDrone /\ [][NextDrone]_vars
    /\ WF_vars(CapThread)
    /\ WF_vars(ProcThread)
    /\ WF_vars(GpsThread)
    /\ WF_vars(Controller)

\* the source of a run with send_event calls holds this many frames
TransmitFrames == 1

\* and send_event is called at most this many times in it
TransmitEvents == 1

InitTransmit ==
    /\ PipeInitWith(TransmitFrames) /\ SendInit
    /\ VioIdle /\ TerIdle /\ GeoIdle /\ CtlIdle
    /\ NarIdle /\ WinIdle /\ AlertIdle

\* what the threads and send_event together leave alone
transmitRest ==
    <<vioVars, terVars, geoVars, ctlVars, narVars, winVars,
      alertVars>>

NextTransmit ==
    \/ Start /\ UNCHANGED <<sendVars, transmitRest>>
    \/ CapLoop /\ UNCHANGED <<sendVars, transmitRest>>
    \/ CapReadOk /\ UNCHANGED <<sendVars, transmitRest>>
    \/ CapReadFail /\ UNCHANGED <<sendVars, transmitRest>>
    \/ CapCheckNotFull /\ UNCHANGED <<sendVars, transmitRest>>
    \/ CapPut /\ UNCHANGED <<sendVars, transmitRest>>
    \/ ProcLoop /\ UNCHANGED <<sendVars, transmitRest>>
    \/ ProcCheckEmpty /\ UNCHANGED <<sendVars, transmitRest>>
    \/ ProcGet /\ UNCHANGED <<sendVars, transmitRest>>
    \/ ProcInferOk /\ UNCHANGED <<sendVars, transmitRest>>
    \/ ProcInferError /\ UNCHANGED <<sendVars, transmitRest>>
    \/ ProcExcept /\ UNCHANGED <<sendVars, transmitRest>>
    \/ ProcCheckFull /\ UNCHANGED <<sendVars, transmitRest>>
    \/ ProcPut /\ UNCHANGED <<sendVars, transmitRest>>
    \/ SendEvent /\ event < TransmitEvents
                 /\ UNCHANGED <<pipeVars, transmitRest>>
    \/ Post /\ UNCHANGED <<pipeVars, transmitRest>>
    \/ Sleep /\ UNCHANGED <<pipeVars, transmitRest>>

\* the threads of a started VideoProcessor next to send_event calls on the
\* event loop
SpecTransmit == InitTransmit /\ [][NextTransmit]_vars

\* the source of a run that watches the queue calls holds this many frames:
\* more than a queue takes
QueueFrames == 11

InitQueues ==
    /\ PipeInitWith(QueueFrames) /\ VioIdle /\ TerIdle /\ SendIdle /\ GeoIdle
    /\ CtlIdle /\ NarIdle /\ WinIdle /\ AlertIdle

NextQueues ==
    \/ Start /\ UNCHANGED pipeRest
    \/ CapLoop /\ UNCHANGED pipeRest
    \/ CapReadOk /\ UNCHANGED pipeRest
    \/ CapReadFail /\ UNCHANGED pipeRest
    \/ CapCheckNotFull /\ UNCHANGED pipeRest
    \/ CapSkip /\ UNCHANGED pipeRest
    \/ CapPut /\ UNCHANGED pipeRest
    \/ ProcLoop /\ UNCHANGED pipeRest
    \/ ProcCheckEmpty /\ UNCHANGED pipeRest
    \/ ProcGet /\ UNCHANGED pipeRest
    \/ ProcInferOk /\ UNCHANGED pipeRest
    \/ ProcInferError /\ UNCHANGED pipeRest
    \/ ProcExcept /\ UNCHANGED pipeRest
    \/ ProcCheckFull /\ UNCHANGED pipeRest
    \/ ProcDrop /\ UNCHANGED pipeRest
    \/ ProcPut /\ UNCHANGED pipeRest
    \/ GetLatestResultNone /\ UNCHANGED pipeRest
    \/ GetLatestResultCheck /\ UNCHANGED pipeRest
    \/ GetLatestResultGet /\ UNCHANGED pipeRest

\* the two threads and one caller of get_latest_result, every check and every
\* queue call a step of its own
SpecQueues == InitQueues /\ [][NextQueues]_vars

\* the source of a run in which the inference thread is scheduled fairly
\* holds this many frames: more than the frame queue takes
DrainFrames == 11

InitDrain ==
    /\ PipeInitWith(DrainFrames) /\ VioIdle /\ TerIdle /\ SendIdle /\ GeoIdle
    /\ CtlIdle /\ NarIdle /\ WinIdle /\ AlertIdle

\* the two threads of a started VideoProcessor that is not stopped, whose
\* model calls all return and whose results nobody takes
NextDrain ==
    \/ Start /\ UNCHANGED pipeRest
    \/ CapLoop /\ UNCHANGED pipeRest
    \/ CapReadOk /\ UNCHANGED pipeRest
    \/ CapReadFail /\ UNCHANGED pipeRest
    \/ CapCheckNotFull /\ UNCHANGED pipeRest
    \/ CapSkip /\ UNCHANGED pipeRest
    \/ CapPut /\ UNCHANGED pipeRest
    \/ ProcLoop /\ UNCHANGED pipeRest
    \/ ProcCheckEmpty /\ UNCHANGED pipeRest
    \/ ProcGet /\ UNCHANGED pipeRest
    \/ ProcInferOk /\ UNCHANGED pipeRest
    \/ ProcCheckFull /\ UNCHANGED pipeRest
    \/ ProcDrop /\ UNCHANGED pipeRest
    \/ ProcPut /\ UNCHANGED pipeRest

\* the steps of the inference thread
InferenceThread ==
    (ProcLoop \/ ProcCheckEmpty \/ ProcGet \/ ProcInferOk
        \/ ProcCheckFull \/ ProcDrop \/ ProcPut)
        /\ UNCHANGED pipeRest

\* the run under a scheduler that lets the inference thread step again and
\* again: the model call and the sleep of the poll return
FairDrain == InitDrain /\ [][NextDrain]_vars /\ WF_vars(InferenceThread)

\* the source of a run in which stop() is called at any time, any number of
\* times, holds this many frames
StopFrames == 2

InitStop ==
    /\ PipeInitWith(StopFrames) /\ VioIdle /\ TerIdle /\ SendIdle /\ GeoIdle
    /\ CtlIdle /\ NarIdle /\ WinIdle /\ AlertIdle

\* a VideoProcessor whose owner calls start() once and stop() whenever no
\* stop() is under way: before start(), while the threads run, after a stop()
NextStop ==
    \/ Start /\ UNCHANGED pipeRest
    \/ Stop /\ UNCHANGED pipeRest
    \/ StopRelease /\ UNCHANGED pipeRest
    \/ StopJoinCapture /\ UNCHANGED pipeRest
    \/ StopJoinProcess /\ UNCHANGED pipeRest
    \/ CapLoop /\ UNCHANGED pipeRest
    \/ CapReadOk /\ UNCHANGED pipeRest
    \/ CapReadFail /\ UNCHANGED pipeRest
    \/ CapCheckNotFull /\ UNCHANGED pipeRest
    \/ CapPut /\ UNCHANGED pipeRest
    \/ ProcLoop /\ UNCHANGED pipeRest
    \/ ProcCheckEmpty /\ UNCHANGED pipeRest
    \/ ProcGet /\ UNCHANGED pipeRest
    \/ ProcInferOk /\ UNCHANGED pipeRest
    \/ ProcInferError /\ UNCHANGED pipeRest
    \/ ProcExcept /\ UNCHANGED pipeRest
    \/ ProcCheckFull /\ UNCHANGED pipeRest
    \/ ProcPut /\ UNCHANGED pipeRest

SpecStop == InitStop /\ [][NextStop]_vars

InitNarrative ==
    /\ NarInit /\ PipeIdle /\ VioIdle /\ TerIdle /\ SendIdle /\ GeoIdle
    /\ CtlIdle /\ WinIdle /\ AlertIdle

\* what _format_detections leaves alone
narRest ==
    <<pipeVars, vioVars, terVars, sendVars, geoVars, ctlVars, winVars,
      alertVars>>

NextNarrative ==
    \/ FormatDetectionsSpatial /\ UNCHANGED narRest
    \/ FormatDetectionsFew /\ UNCHANGED narRest

\* the proximity narrative of _format_detections on every bounded DetectionSet
SpecNarrative == InitNarrative /\ [][NextNarrative]_vars

InitWindow ==
    /\ WinInit /\ PipeIdle /\ VioIdle /\ TerIdle /\ SendIdle /\ GeoIdle
    /\ CtlIdle /\ NarIdle /\ AlertIdle

\* what _get_elevation_matrix leaves alone
winRest ==
    <<pipeVars, vioVars, terVars, sendVars, geoVars, ctlVars, narVars,
      alertVars>>

NextWindow ==
    \/ GetElevationMatrix /\ UNCHANGED winRest
    \/ SampleCell /\ UNCHANGED winRest
    \/ SampleCellError /\ UNCHANGED winRest

\* one call of _get_elevation_matrix, every raster lookup going through or
\* raising
SpecWindow == InitWindow /\ [][NextWindow]_vars

InitNotify ==
    /\ AlertInit /\ PipeIdle /\ VioIdle /\ TerIdle /\ SendIdle /\ GeoIdle
    /\ CtlIdle /\ NarIdle /\ WinIdle

\* what the AlertManager leaves alone
alertRest ==
    <<pipeVars, vioVars, terVars, sendVars, geoVars, ctlVars, narVars,
      winVars>>

NextNotify ==
    \/ \E c \in Clients : RegisterClient(c) /\ UNCHANGED alertRest
    \/ NotifyClients /\ UNCHANGED alertRest
    \/ \E c \in Clients : NotifyNextClient(c) /\ UNCHANGED alertRest
    \/ NotifyReturn /\ UNCHANGED alertRest
    \/ NotifyRuntimeError /\ UNCHANGED alertRest
    \/ SendJson /\ UNCHANGED alertRest
    \/ SendJsonError /\ UNCHANGED alertRest

\* clients register, some of them with a connection that fails, and
\* notify_clients is called once
SpecNotify == InitNotify /\ [][NextNotify]_vars

(***************************************************************************)
(* The claims                                                              *)
(***************************************************************************)

\* C1: the frame queue never holds more than K frames, and while no get()
\* has happened since the queue was empty, the queue holds the first K frames
\* read, in capture order: after K+1 reads it holds exactly the first K and
\* the (K+1)-th frame is not in it.
C1_FrameQueueOverflow ==
    /\ Len(frame_queue) <= K
    /\ burst_ok =>
          /\ frame_queue = SubSeq(burst, 1, Min(Len(burst), K))
          /\ Len(burst) = K + 1 =>
                /\ Len(frame_queue) = K
                /\ \A i \in 1..K : frame_queue[i] = burst[i]
                /\ \A i \in 1..K : frame_queue[i] # burst[K + 1]

\* K+1 frames were read from an empty queue with no get() in between
C1_Witness ==
    /\ burst_ok
    /\ Len(burst) = K + 1
    /\ cap_pc = "loop"


\* two different entries of the object sequence, both persons
PersonPair(i, j) ==
    /\ i # j
    /\ detections[i].class_name = "person"
    /\ detections[j].class_name = "person"

\* the normalized distance from the i-th to the j-th detection is below 0.2
Closer(i, j) ==
    BelowProximity(CalculateBoxDistance(detections[i].bbox, detections[j].bbox))

\* no detection of a violence class {1,2,3,7,9} or a weapon class {4,5,6}
NoTriggerClass ==
    \A i \in 1..Len(detections) :
        detections[i].class_id \notin ({1, 2, 3, 7, 9} \cup {4, 5, 6})

\* C2: a DetectionSet with no violence-class and no weapon-class object and
\* no two persons closer than 0.2 gives violence_detected = false, whatever
\* the threshold.
C2_NoTriggerNoViolence ==
    (/\ vio_pc = "done"
     /\ NoTriggerClass
     /\ \A i, j \in 1..Len(detections) : PersonPair(i, j) => ~Closer(i, j))
    => violence_detected = FALSE

\* two persons too far apart and nothing else, analysed
C2_Witness ==
    /\ vio_pc = "done"
    /\ NoTriggerClass
    /\ \E i, j \in 1..Len(detections) : PersonPair(i, j)
    /\ \A i, j \in 1..Len(detections) : PersonPair(i, j) => ~Closer(i, j)
    /\ violence_detected = FALSE

\* C3: a DetectionSet with a weapon-class detection (4, 5 or 6) gives
\* violence_detected = true, whatever its confidence and the threshold.
C3_WeaponOverride ==
    (/\ vio_pc = "done"
     /\ \E i \in 1..Len(detections) : detections[i].class_id \in {4, 5, 6})
    => violence_detected = TRUE

\* a single weapon of a confidence below the threshold, analysed
C3_Witness ==
    /\ vio_pc = "done"
    /\ Len(detections) = 1
    /\ detections[1].class_id \in {4, 5, 6}
    /\ detections[1].confidence < violence_threshold
    /\ violence_detected = TRUE

\* C4, as claimed: two persons closer than 0.2 and no other triggering
\* object put 0.6 into violence_scores, and the result is true whenever
\* violence_threshold <= 0.6.
C4_ClosePersonsUpToThreshold ==
    (/\ vio_pc = "done"
     /\ NoTriggerClass
     /\ \E i, j \in 1..Len(detections) : PersonPair(i, j) /\ Closer(i, j)
     /\ violence_threshold <= 60)
    => /\ \E k \in 1..Len(violence_scores) : violence_scores[k] = 60
       /\ violence_detected = TRUE

\* C4, amended: two persons that differ in confidence or bounding box, closer
\* than 0.2, and no other triggering object put 0.6 into violence_scores,
\* which then holds nothing else; the result is true when
\* violence_threshold < 0.6 and false from violence_threshold = 0.6 on.
C4_ClosePersonsBelowThreshold ==
    (/\ vio_pc = "done"
     /\ NoTriggerClass
     /\ \E i, j \in 1..Len(detections) :
           PersonPair(i, j) /\ detections[i] # detections[j] /\ Closer(i, j))
    => /\ \E k \in 1..Len(violence_scores) : violence_scores[k] = 60
       /\ \A k \in 1..Len(violence_scores) : violence_scores[k] = 60
       /\ violence_threshold < 60 => violence_detected = TRUE
       /\ violence_threshold >= 60 => violence_detected = FALSE

\* two different persons closer than 0.2, a threshold below 0.6, analysed
C4_Witness ==
    /\ vio_pc = "done"
    /\ NoTriggerClass
    /\ \E i, j \in 1..Len(detections) :
          PersonPair(i, j) /\ detections[i] # detections[j] /\ Closer(i, j)
    /\ violence_threshold < 60
    /\ violence_detected = TRUE

\* C5: an elevation below the medium threshold (500) with a slope below the
\* gentle threshold (5) is classified "urban" with confidence 0.8.
C5_LowFlatIsUrban ==
    (ter_pc = "done" /\ elevation < 500 /\ slope < 50)
    => (terrain_type = "urban" /\ terrain_confidence = 8)

\* C6: an elevation above the mountain threshold (2500) or a slope above the
\* steep threshold (30) is classified "mountain" with confidence 0.8.
C6_MountainEitherTrigger ==
    (ter_pc = "done" /\ (elevation > 2500 \/ slope > 300))
    => (terrain_type = "mountain" /\ terrain_confidence = 8)

\* elevation 3000 with slope 10, classified: the elevation alone triggers
C6_Witness ==
    /\ ter_pc = "done"
    /\ elevation = 3000
    /\ slope = 100
    /\ terrain_type = "mountain"

IsPost(x) == "post" \in DOMAIN x

\* the number of POST attempts among the first i entries of the log
PostsUpTo(i) == Cardinality({k \in 1..i : IsPost(send_log[k])})

\* an attempt that ended in a connection error or in a status that
\* send_event does not take for success
FailedAttempt(x) ==
    IsPost(x) /\ (x.post = "conn_error" \/ (x.status # 0 /\ x.status # 200))

\* C7: at most 3 POST attempts per event; after failed attempt n < 3 the
\* transmitter sleeps retry_delay * n and then makes attempt n+1; an attempt
\* that succeeded is the last one and send_event returns True; after 3
\* failed attempts send_event returns False.
C7_RetryProtocol ==
    /\ PostsUpTo(Len(send_log)) <= 3
    /\ \A i \in 1..Len(send_log) :
          (FailedAttempt(send_log[i]) /\ PostsUpTo(i) < 3) =>
             /\ i = Len(send_log) => send_pc = "sleep"
             /\ i < Len(send_log) =>
                   send_log[i + 1] = [sleep |-> retry_delay * PostsUpTo(i)]
             /\ i + 1 = Len(send_log) => send_pc = "post"
             /\ i + 1 < Len(send_log) => IsPost(send_log[i + 2])
    /\ \A i \in 1..Len(send_log) :
          (IsPost(send_log[i]) /\ send_log[i].status = 200) =>
             /\ i = Len(send_log)
             /\ send_pc = "done"
             /\ send_result = "true"
    /\ \A i \in 1..Len(send_log) :
          (FailedAttempt(send_log[i]) /\ PostsUpTo(i) = 3) =>
             /\ i = Len(send_log)
             /\ send_pc = "done"
             /\ send_result = "false"

\* three failed attempts, a status error among them, with both sleeps
C7_Witness ==
    /\ send_pc = "done"
    /\ send_result = "false"
    /\ Len(send_log) = 5
    /\ send_log[1].post = "stored_error"
    /\ send_log[2] = [sleep |-> 1]
    /\ send_log[3].post = "conn_error"
    /\ send_log[4] = [sleep |-> 2]
    /\ FailedAttempt(send_log[5])

\* all three attempts of this send_event ended in a connection error
AllAttemptsUnreachable ==
    /\ PostsUpTo(Len(send_log)) = 3
    /\ \A i \in 1..Len(send_log) :
          IsPost(send_log[i]) => send_log[i].post = "conn_error"

\* C8: when all 3 attempts fail against an unreachable endpoint, send_event
\* returns False (it does not raise), the backoff slept is exactly
\* retry_delay*1 + retry_delay*2, and no sleep follows the third attempt.
C8_UnreachableEndpoint ==
    /\ send_pc = "done" => send_result \in {"true", "false"}
    /\ AllAttemptsUnreachable =>
          /\ send_pc = "done"
          /\ send_result = "false"
          /\ slept = retry_delay * 1 + retry_delay * 2
          /\ IsPost(send_log[Len(send_log)])

\* send_event has returned after three connection errors
C8_Witness ==
    /\ AllAttemptsUnreachable
    /\ send_pc = "done"
    /\ send_result = "false"
    /\ slept = 3

\* C9: a response with a 2xx status to a POST attempt counts as success:
\* send_event returns True and makes no further attempt.
C9_Any2xxIsSuccess ==
    \A i \in 1..Len(send_log) :
        (IsPost(send_log[i]) /\ send_log[i].status \in 200..299) =>
           /\ i = Len(send_log)
           /\ send_pc = "done"
           /\ send_result = "true"

\* the rows the sink holds for EventRecord e
RowsOf(e) == {k \in 1..Len(events_gdf) : events_gdf[k].event = e}

\* C10: whatever the outcomes of the attempts, the sink holds at most one
\* event for each EventRecord and never a partially recorded one, and an
\* event reported as failed leaves nothing at the sink.
C10_AtMostOnce ==
    /\ \A e \in 1..MaxEvents : Cardinality(RowsOf(e)) <= 1
    /\ \A k \in 1..Len(events_gdf) : events_gdf[k].image = TRUE
    /\ (send_pc = "done" /\ send_result = "false") => RowsOf(event) = {}

Frames(q) == {q[i].frame : i \in 1..Len(q)}

\* the inference thread takes a frame from the frame queue
GetsFrame == proc_pc = "get" /\ proc_pc' = "infer"

\* a consumer takes a ProcessedFrame from the result queue
TakesResult == Len(result_queue') < Len(result_queue)

\* C12: the frames the inference thread takes, and the results a consumer
\* takes, are each a later frame of the capture sequence than the one taken
\* before: strictly increasing, so none twice and none out of capture order;
\* a result taken is the result of a frame the inference thread took.
C12_SubsequenceOrdering ==
    [][ /\ GetsFrame => /\ proc_frame' > last_got
                        /\ proc_frame' \in 1..captured
        /\ TakesResult => /\ latest'.frame > last_taken
                          /\ latest'.frame \in 1..last_got
                          /\ latest' = Head(result_queue) ]_vars

\* a result beyond the first was taken, and the inference thread has since
\* handled later frames that left no result: the consumer sees a subsequence
C12_Witness ==
    /\ last_taken >= 2
    /\ latest # None /\ latest.frame = last_taken
    /\ last_got >= last_taken + 2
    /\ proc_pc = "loop" /\ result_queue = <<>>

\* C13: when an exception is raised while a frame is preprocessed, run
\* through the model or post-processed, the frame is out of the frame queue
\* and has no ProcessedFrame, and the except clause leaves both queues alone
\* and returns the thread to the head of its loop, where it goes on.
C13_ExceptionSkipsFrame ==
    /\ [](proc_pc = "except" =>
            /\ proc_frame \in 1..captured
            /\ \A i \in 1..Len(frame_queue) : frame_queue[i] # proc_frame
            /\ proc_frame \notin Frames(result_queue)
            /\ latest # None => latest.frame # proc_frame)
    /\ [][ proc_pc = "except" /\ proc_pc' # "except" =>
            /\ proc_pc' = "loop"
            /\ frame_queue' = frame_queue
            /\ result_queue' = result_queue ]_vars

\* frame 1 was skipped by an exception (it is in no queue, no result of it
\* was taken or dropped) and the thread is now inferring on frame 2
C13_Witness ==
    /\ proc_pc = "infer" /\ proc_frame = 2
    /\ result_queue = <<>> /\ last_taken = 0

\* C19: the result queue never holds more than K results; when it is full
\* at the check, the new ProcessedFrame is not put, and the queue contents
\* and order stay as they are.
C19_ResultQueueDropsNewest ==
    /\ [](Len(result_queue) <= K)
    /\ [][ /\ (proc_pc = "check_full" /\ proc_pc' # "check_full"
                /\ Full(result_queue)) =>
                    proc_pc' = "dropped" /\ result_queue' = result_queue
           /\ (proc_pc = "dropped" /\ proc_pc' # "dropped") =>
                    proc_pc' = "loop" /\ result_queue' = result_queue ]_vars

\* a violent ProcessedFrame is being discarded at a full result queue
C19_Witness ==
    /\ proc_pc = "dropped"
    /\ proc_result.violence_detected
    /\ Len(result_queue) = K


\* C11: whatever get_current_data returned to a reader is None or the
\* GeospatialData of one fix the GPS thread has parsed, all its fields from
\* that fix; so is current_data itself.
C11_NoTornSnapshot ==
    /\ \A r \in Readers :
          \/ rd_result[r] = None
          \/ \E n \in 1..fix : rd_result[r] = GeospatialData(n)
    /\ \/ current_data = None
       \/ \E n \in 1..fix : current_data = GeospatialData(n)

\* one reader got the snapshot of fix 1; the other holds the lock while the
\* GPS thread waits for it with the update of fix 2
C11_Witness ==
    /\ rd_result["r1"] = GeospatialData(1)
    /\ rd_pc["r2"] = "locked"
    /\ gps_pc = "acquire" /\ fix = 2

Ended(pc) == pc \in {"unstarted", "exit", "crashed"}

\* C14: in stop() the flag is cleared before the capture is released, the
\* capture is released before the joins, the capture thread is joined, then
\* the inference thread; GeospatialModule.stop clears its flag and joins the
\* GPS thread. Every stop() that has begun returns, with the threads ended,
\* and from then on no frame and no result is put in a queue.
C14_Cancellation ==
    /\ [](stop_pc # "idle" => ~running)
    /\ [](stop_pc \in {"join_capture", "join_process", "done"} =>
            capture = "released")
    /\ [](stop_pc \in {"join_process", "done"} => Ended(cap_pc))
    /\ [](stop_pc = "done" => Ended(proc_pc))
    /\ [](geo_stop_pc # "idle" => ~geo_running)
    /\ [](geo_stop_pc = "done" => Ended(gps_pc))
    /\ [][stop_pc = "done" =>
            frame_queue' = frame_queue /\ result_queue' = result_queue]_vars
    /\ (stop_pc = "release") ~> (stop_pc = "done")
    /\ (geo_stop_pc = "join") ~> (geo_stop_pc = "done")

\* stop() has returned after the threads ran: all three have left their loops
C14_Witness ==
    /\ ctl_pc = "returned"
    /\ stop_pc = "done" /\ geo_stop_pc = "done"
    /\ cap_pc = "exit" /\ proc_pc = "exit" /\ gps_pc = "exit"
    /\ Len(result_queue) = 1

\* C15: once start() has caught an exception of the pipeline, the controller
\* loop still runs and the capture, inference and GPS threads are not stopped.
C15_NoFatalError ==
    ctl_error # "none" => ctl_running /\ running /\ geo_running

\* the thread at pc is inside the body of its loop
InLoopBody(pc) == pc \notin {"unstarted", "open", "loop", "exit", "crashed"}

\* C16: when the capture handle is not opened, or the serial port of the GPS
\* cannot be opened, no thread is inside the body of its loop.
C16_AbortBeforeLoops ==
    (capture = "closed" \/ gps_pc = "crashed") =>
        ~InLoopBody(cap_pc) /\ ~InLoopBody(proc_pc) /\ ~InLoopBody(gps_pc)

\* process_frame runs to its end
ProcessFrameRuns == ctl_pc = "process_frame" /\ ctl_pc' # "process_frame"

\* C17: a process_frame that finds a ProcessedFrame with violence_detected
\* in the result queue takes it and calls send_event once with an
\* EventRecord; one that finds a ProcessedFrame without calls none.
C17_EventTrigger ==
    [][ ProcessFrameRuns /\ result_queue # <<>> =>
          IF Head(result_queue).violence_detected
            THEN /\ result_queue' = Tail(result_queue)
                 /\ event' = event + 1
            ELSE event' = event ]_vars

\* C18: the analysis call of process_violence_event never raises to it.
C18_AnalysisNeverRaises == pve_error # "analyze_event"

CapStep ==
    CapLoop \/ CapReadOk \/ CapReadFail \/ CapCheckNotFull \/ CapSkip
        \/ CapPut

ProcStep ==
    ProcLoop \/ ProcCheckEmpty \/ ProcGet \/ ProcInferOk \/ ProcInferError
        \/ ProcExcept \/ ProcCheckFull \/ ProcDrop \/ ProcPut

Alive(pc) == pc \notin {"unstarted", "exit"}

\* C20: while send_event awaits a POST or sleeps before a retry, the capture
\* thread and the inference thread, when they live, each have a step to take.
C20_SendNeverStalls ==
    send_pc \in {"post", "sleep"} =>
        /\ Alive(cap_pc) => ENABLED CapStep
        /\ Alive(proc_pc) => ENABLED ProcStep

\* send_event sleeps after a failed attempt while the capture thread is
\* about to put a frame and the inference thread polls the frame queue
C20_Witness ==
    /\ send_pc = "sleep" /\ attempt = 1
    /\ cap_pc = "put"
    /\ proc_pc = "check_empty"


\* twice the center of a bounding box
Center2(bbox) == <<bbox[1] + bbox[3], bbox[2] + bbox[4]>>

HasScore(x) == \E k \in 1..Len(violence_scores) : violence_scores[k] = x

\* the i-th and the j-th detection are persons with box centers (10,10) and
\* (12,12), sqrt(8) apart
ScenarioPair(i, j) ==
    /\ PersonPair(i, j)
    /\ Center2(detections[i].bbox) = <<20, 20>>
    /\ Center2(detections[j].bbox) = <<24, 24>>

\* the square of the diagonal of a bounding box
Diagonal2(bbox) ==
    (bbox[3] - bbox[1]) * (bbox[3] - bbox[1])
      + (bbox[4] - bbox[2]) * (bbox[4] - bbox[2])

\* C21, as claimed: two person detections with box centers (10,10) and
\* (12,12) put 0.6 into violence_scores, whatever the widths and heights of
\* their boxes.
C21_ProximityScenario ==
    (/\ vio_pc = "done"
     /\ \E i, j \in 1..Len(detections) : ScenarioPair(i, j))
    => HasScore(60)

\* C21, amended: two person detections with box centers (10,10) and (12,12)
\* put 0.6 into violence_scores when the diagonal of one of the boxes is more
\* than five times the distance sqrt(8) of the centers (its square above 200);
\* when both diagonals are shorter and nothing else is detected, there is no
\* 0.6.
C21_ProximityByBoxDiagonal ==
    vio_pc = "done" =>
        \A i, j \in 1..Len(detections) :
            ScenarioPair(i, j) =>
                /\ (\/ Diagonal2(detections[i].bbox) > 200
                    \/ Diagonal2(detections[j].bbox) > 200) => HasScore(60)
                /\ (/\ Len(detections) = 2
                    /\ Diagonal2(detections[i].bbox) <= 200
                    /\ Diagonal2(detections[j].bbox) <= 200) => ~HasScore(60)

\* two persons in 2 x 2 boxes at (10,10) and (12,12): no score
C21_Witness ==
    /\ vio_pc = "done"
    /\ Len(detections) = 2
    /\ ScenarioPair(1, 2)
    /\ detections[1].bbox = BoxC
    /\ detections[2].bbox = BoxB
    /\ violence_scores = <<>>
    /\ violence_detected = FALSE

\* the reference: the confidences a DetectionSet calls for, by class name
ReferenceClassScores ==
    {detections[i].confidence : i \in {k \in 1..Len(detections) :
        detections[k].class_name \in
            {"fighting", "punching", "kicking", "aggressive_gesture",
             "group_violence", "weapon", "knife", "gun"}}}

ReferenceHasWeapons ==
    \E i \in 1..Len(detections) :
        detections[i].class_name \in {"weapon", "knife", "gun"}

\* the reference decision over a set of scores
ReferenceHolds(scores) ==
    /\ {violence_scores[k] : k \in 1..Len(violence_scores)} = scores
    /\ violence_detected =
          (\/ ReferenceHasWeapons
           \/ \E x \in scores : x > violence_threshold)

\* C25, as claimed: violence_scores holds the confidences of the
\* violence-class and of the weapon-class objects, and 0.6 when two person
\* entries are close, and nothing else; the result is true when a
\* weapon-class object is there or a score is above the threshold, and false
\* otherwise, so false when there is no score.
C25_ReferenceAnyPair ==
    vio_pc = "done" =>
        ReferenceHolds(ReferenceClassScores
            \cup (IF \E i, j \in 1..Len(detections) :
                        PersonPair(i, j) /\ Closer(i, j)
                  THEN {60} ELSE {}))

\* C25, amended: the same, with the 0.6 there exactly when two person
\* entries that differ in confidence or bounding box are close.
C25_ReferenceDecision ==
    vio_pc = "done" =>
        ReferenceHolds(ReferenceClassScores
            \cup (IF \E i, j \in 1..Len(detections) :
                        /\ PersonPair(i, j)
                        /\ detections[i] # detections[j]
                        /\ Closer(i, j)
                  THEN {60} ELSE {}))

\* a violence-class object at the threshold next to a weapon below it: both
\* confidences are scores, none is above the threshold, the weapon decides
C25_Witness ==
    /\ vio_pc = "done"
    /\ Len(detections) = 2
    /\ detections[1].class_name = "fighting"
    /\ detections[1].confidence = violence_threshold
    /\ detections[2].class_name = "gun"
    /\ detections[2].confidence = 30
    /\ violence_scores = <<70, 30>>
    /\ violence_detected = TRUE

\* C26, as claimed: any two person entries of the object sequence closer
\* than 0.2, equal in confidence and bounding box or not, put 0.6 into
\* violence_scores.
C26_AnyTwoEntries ==
    (/\ vio_pc = "done"
     /\ \E i, j \in 1..Len(detections) : PersonPair(i, j) /\ Closer(i, j))
    => HasScore(60)

\* C26, amended: two person entries that differ in confidence or bounding
\* box, one of them closer than 0.2 to the other by _calculate_box_distance
\* (the center distance over the diagonal of its own box), put 0.6 into
\* violence_scores, whatever else the DetectionSet holds.
C26_TwoDifferentEntries ==
    (/\ vio_pc = "done"
     /\ \E i, j \in 1..Len(detections) :
           PersonPair(i, j) /\ detections[i] # detections[j] /\ Closer(i, j))
    => HasScore(60)

\* the small box first and the large box second: only the second person is
\* closer than 0.2 to the other, and there is one 0.6
C26_Witness ==
    /\ vio_pc = "done"
    /\ Len(detections) = 2
    /\ PersonPair(1, 2)
    /\ ~Closer(1, 2) /\ Closer(2, 1)
    /\ violence_scores = <<60>>

\* the highest of the accumulated category scores
MaxScore(scores) ==
    CHOOSE m \in {scores[i] : i \in DOMAIN scores} :
        \A i \in DOMAIN scores : scores[i] <= m

\* C22: an elevation of 500 or more or a slope of 15 or more, with neither
\* the elevation above 2500 nor the slope above 30, is classified "rural"
\* with confidence 0.5; for every input the confidence is the highest
\* accumulated category score and lies between 0 and 1.
C22_FloorDefaultAndConfidence ==
    ter_pc = "done" =>
        /\ (/\ elevation >= 500 \/ slope >= 150
            /\ ~(elevation > 2500)
            /\ ~(slope > 300))
           => (terrain_type = "rural" /\ terrain_confidence = 5)
        /\ terrain_confidence = MaxScore(TerrainScores(elevation, slope))
        /\ terrain_confidence >= 0
        /\ terrain_confidence <= 10

\* elevation 500 on flat ground: no rule fires
C22_Witness ==
    /\ ter_pc = "done"
    /\ elevation = 500
    /\ slope = 0
    /\ terrain_type = "rural"
    /\ terrain_confidence = 5

\* C23: with the slope below the gentle threshold and the elevation below
\* the medium threshold, every lower elevation has an urban score that is
\* not lower.
C23_UrbanScoreMonotonic ==
    (/\ ter_pc = "done"
     /\ slope < SLOPE_THRESHOLDS.gentle
     /\ elevation < ELEVATION_THRESHOLDS.medium)
    => \A e1 \in Elevations :
          e1 < elevation =>
              TerrainScores(e1, slope)[1] >= TerrainScores(elevation, slope)[1]

\* just below both thresholds, with the urban score 0.8 there and at the
\* lowest elevation, below the low threshold
C23_Witness ==
    /\ ter_pc = "done"
    /\ elevation = 499
    /\ slope = 49
    /\ TerrainScores(elevation, slope)[1] = 8
    /\ TerrainScores(0 - Margin, slope)[1] = 8
    /\ terrain_type = "suburban"

C28_FailedUpdateKeepsSnapshot ==
    [][ /\ current_data' # current_data =>
              /\ gps_pc = "assign"
              /\ current_data' = GeospatialData(fix)
        /\ (gps_pc = "readline" /\ gps_pc' # "readline") =>
              /\ gps_pc' \in {"update", "sleep"}
              /\ current_data' = current_data
        /\ (gps_pc = "update" /\ gps_pc' # "update") =>
              /\ gps_pc' \in {"acquire", "sleep"}
              /\ current_data' = current_data
        /\ (gps_pc = "sleep" /\ gps_pc' # "sleep") => gps_pc' = "loop" ]_vars

\* the update for fix 2 raised: the snapshot of fix 1 is still published
C28_Witness ==
    /\ fix = 2
    /\ current_data = GeospatialData(1)
    /\ gps_pc = "sleep"
    /\ geo_running

\* the k-th relationship reports the objects at the positions i and j
Reports(k, i, j) ==
    {relationships[k].obj1, relationships[k].obj2} = {i, j}

\* the centers of the i-th and the j-th object are closer than 0.2 of the
\* frame's diagonal
FrameRelativeClose(i, j) ==
    25 * CenterDistance(nar_objects[i].bbox, nar_objects[j].bbox)
        < 4 * (FrameShape.width * FrameShape.width
                 + FrameShape.height * FrameShape.height)

\* C27: two detections are reported as in close proximity exactly when their
\* box centers are closer than 0.2 of the frame size, and no pair of
\* detections is reported twice.
C27_FrameRelativeNarrative ==
    (nar_pc = "done" /\ Len(nar_objects) >= 2) =>
        \A i, j \in 1..Len(nar_objects) :
            i < j =>
                /\ (\E k \in 1..Len(relationships) : Reports(k, i, j))
                      <=> FrameRelativeClose(i, j)
                /\ Cardinality({k \in 1..Len(relationships) :
                                   Reports(k, i, j)}) <= 1

\* the cells the loops have filled, in the order of the loops
Filled ==
    {c \in Cells :
        \/ win_pc = "done"
        \/ win_pc = "cell" /\ (c[1] < win_i \/ (c[1] = win_i /\ c[2] < win_j))}

Before(c, d) == c[1] < d[1] \/ (c[1] = d[1] /\ c[2] < d[2])

Neighbours(c, d) ==
    /\ c # d
    /\ c[1] - d[1] \in -1..1
    /\ c[2] - d[2] \in -1..1

\* C29, as claimed: a cell whose lookup failed after a lookup had gone
\* through holds the value of a neighbouring cell that was sampled before it.
C29_FallbackToSampledNeighbour ==
    \A c \in Filled \ sampled :
        (\E d \in sampled : Before(d, c)) =>
            \E d \in sampled :
                /\ Before(d, c)
                /\ Neighbours(c, d)
                /\ matrix[c] = Raster(d[1], d[2])

\* C29, amended: the call runs through every cell and returns; a cell whose
\* lookup went through holds the raster's value, and a cell whose lookup
\* failed holds what the cell above it in the same column (i-1, j) holds,
\* sampled or not, and 0 in the first row (i = 0).
C29_FallbackToRowAbove ==
    /\ win_pc \in {"ready", "cell", "done"}
    /\ \A c \in Filled :
          IF c \in sampled
          THEN matrix[c] = Raster(c[1], c[2])
          ELSE matrix[c] = IF c[1] > 0 THEN matrix[<<c[1] - 1, c[2]>>] ELSE 0

\* the lookup of (0,0) went through and that of (0,1) failed: (0,1) holds 0;
\* the lookup of (1,1) failed too and took the 0 of (0,1)
C29_Witness ==
    /\ win_pc = "done"
    /\ <<0, 0>> \in sampled
    /\ <<0, 1>> \notin sampled /\ matrix[<<0, 1>>] = 0
    /\ <<1, 0>> \in sampled
    /\ <<1, 1>> \notin sampled /\ matrix[<<1, 1>>] = 0
    /\ <<2, 0>> \notin sampled /\ matrix[<<2, 0>>] = Raster(1, 0)

\* C30: notify_clients does not raise, and when it has returned every
\* client that was connected and can receive was sent the alert and every
\* client whose send failed is out of connected_clients.
C30_NotifyDelivers ==
    /\ not_pc # "raised"
    /\ not_pc = "done" =>
          /\ notified = clients_at_call \ broken
          /\ connected_clients = clients_at_call \ broken

\* C32: the returned terrain type is "mountain" exactly when the elevation
\* is above 2500 or the slope above 30, "suburban" exactly when the elevation
\* is below 500 and the slope below 15, and "rural" in every other case; it
\* is never "urban", and one category alone has the highest score.
C32_ThreeOutcomes ==
    ter_pc = "done" =>
        /\ terrain_type \in {"suburban", "mountain", "rural"}
        /\ terrain_type = "mountain" <=> (elevation > 2500 \/ slope > 300)
        /\ terrain_type = "suburban" <=> (elevation < 500 /\ slope < 150)
        /\ Cardinality({i \in 1..Len(TerrainType) :
              TerrainScores(elevation, slope)[i]
                  = MaxScore(TerrainScores(elevation, slope))}) = 1

\* low ground on a slope between the gentle and the moderate threshold:
\* suburban with 0.6, ahead of rural with 0.4
C32_Witness ==
    /\ ter_pc = "done"
    /\ elevation = 499
    /\ slope = 149
    /\ terrain_type = "suburban"
    /\ terrain_confidence = 6

\* C33: with the default threshold 0.7 the result is true exactly when the
\* DetectionSet holds a weapon-class object or a violence-class object with a
\* confidence above 0.7, whatever persons are close to each other.
C33_ProximityNeverDecidesAtDefault ==
    (vio_pc = "done" /\ violence_threshold = 70) =>
        (violence_detected <=>
            \/ ReferenceHasWeapons
            \/ \E i \in 1..Len(detections) :
                  /\ detections[i].class_name \in
                        {"fighting", "punching", "kicking",
                         "aggressive_gesture", "group_violence"}
                  /\ detections[i].confidence > 70)

\* two close persons at the default threshold: 0.6 is a score and the result
\* is false
C33_Witness ==
    /\ vio_pc = "done"
    /\ violence_threshold = 70
    /\ Len(detections) = 2
    /\ PersonPair(1, 2)
    /\ HasScore(60)
    /\ violence_detected = FALSE

\* the centers of the i-th and the j-th detection are closer than 0.2 times
\* the diagonal of the i-th one's box
WithinOwnDiagonal(i, j) ==
    25 * CenterDistance(detections[i].bbox, detections[j].bbox)
        < 4 * Diagonal2(detections[i].bbox)

\* C34, as claimed: 0.6 is in violence_scores exactly when two person
\* entries have their centers closer than 0.2 times the box diagonal of one
\* of them.
C34_SymmetricForAnyTwo ==
    vio_pc = "done" =>
        (HasScore(60) <=>
            \E i, j \in 1..Len(detections) :
                /\ PersonPair(i, j)
                /\ WithinOwnDiagonal(i, j) \/ WithinOwnDiagonal(j, i))

\* C34, amended: 0.6 is in violence_scores exactly when two person entries
\* that differ in confidence or bounding box have their centers closer than
\* 0.2 times the box diagonal of one of them, whichever comes first.
C34_SymmetricInEffect ==
    vio_pc = "done" =>
        (HasScore(60) <=>
            \E i, j \in 1..Len(detections) :
                /\ i < j
                /\ PersonPair(i, j)
                /\ detections[i] # detections[j]
                /\ WithinOwnDiagonal(i, j) \/ WithinOwnDiagonal(j, i))

\* the large box first and the small box second: the distance is below 0.2
\* of the first diagonal only, and 0.6 is appended once
C34_Witness ==
    /\ vio_pc = "done"
    /\ Len(detections) = 2
    /\ PersonPair(1, 2)
    /\ WithinOwnDiagonal(1, 2) /\ ~WithinOwnDiagonal(2, 1)
    /\ violence_scores = <<60>>

\* the object lists that hold the objects of objs in another order
Reorderings(objs) ==
    {[k \in 1..Len(objs) |-> objs[p[k]]] :
        p \in {f \in [1..Len(objs) -> 1..Len(objs)] :
                  \A a, b \in 1..Len(objs) : a # b => f[a] # f[b]}}

\* C35: _analyze_violence returns for every reordering of the object list
\* what it returned for the list.
C35_OrderIndependent ==
    vio_pc = "done" =>
        \A objs \in Reorderings(detections) :
            AnalyzeViolence(objs, violence_threshold) = violence_detected

\* a person and a gun in the order person, gun: true, as for gun, person
C35_Witness ==
    /\ vio_pc = "done"
    /\ Len(detections) = 2
    /\ detections[1].class_name = "person"
    /\ detections[2].class_name = "gun"
    /\ detections[2].confidence = 30
    /\ violence_detected = TRUE
    /\ AnalyzeViolence(<<detections[2], detections[1]>>, violence_threshold)

\* objs with the object o put in before its k-th object (k = Len + 1: after
\* the last)
InsertAt(objs, k, o) ==
    SubSeq(objs, 1, k - 1) \o <<o>> \o SubSeq(objs, k, Len(objs))

\* C36: when _analyze_violence returned true for a DetectionSet, it returns
\* true for the set with one more object, whichever object and wherever in
\* the list.
C36_MonotoneInDetections ==
    (vio_pc = "done" /\ violence_detected) =>
        \A o \in Objects :
            \A k \in 1..(Len(detections) + 1) :
                AnalyzeViolence(InsertAt(detections, k, o), violence_threshold)

\* a fight with confidence 0.9 decides at the default threshold, and still
\* does with a fight of confidence 0.7 appended after it
C36_Witness ==
    /\ vio_pc = "done"
    /\ violence_threshold = 70
    /\ detections = <<Object(1, 90, BoxA)>>
    /\ violence_detected = TRUE
    /\ AnalyzeViolence(InsertAt(detections, 2, Object(1, 70, BoxA)),
                       violence_threshold)

\* C37: an attempt that raised something other than a connection error is
\* the last entry of the log, with send_event returned and False its result;
\* and a send_event that returns without entering the loop (a field of the
\* record is missing) returns False with no attempt, no sleep and nothing
\* new at the sink.
C37_OtherErrorEndsSend ==
    /\ [](\A i \in 1..Len(send_log) :
             (IsPost(send_log[i]) /\ send_log[i].post = "other_error") =>
                /\ i = Len(send_log)
                /\ send_pc = "done"
                /\ send_result = "false")
    /\ [][ (send_pc \in {"idle", "done"} /\ event' # event /\ send_pc' = "done")
             => /\ send_result' = "false"
                /\ send_log' = <<>>
                /\ slept' = 0
                /\ events_gdf' = events_gdf ]_vars

\* the second attempt, after a connection error and its sleep, raised
\* another exception: send_event returned False there
C37_Witness ==
    /\ send_pc = "done"
    /\ send_result = "false"
    /\ Len(send_log) = 3
    /\ send_log[1].post = "conn_error"
    /\ send_log[2] = [sleep |-> 1]
    /\ send_log[3].post = "other_error"
    /\ slept = 1

\* C31: a thread that is at a put() has room in the queue and a thread, or
\* the caller of get_latest_result, that is at a get() has an item in it: the
\* call returns at once, so no thread waits on a queue.
C31_QueueCallsNeverBlock ==
    /\ cap_pc = "put" => (Len(frame_queue) < K /\ ENABLED CapPut)
    /\ proc_pc = "get" => (Len(frame_queue) > 0 /\ ENABLED ProcGet)
    /\ proc_pc = "put" => (Len(result_queue) < K /\ ENABLED ProcPut)
    /\ take_pc = "get" => (Len(result_queue) > 0 /\ ENABLED GetLatestResultGet)

\* the capture thread is at its put() with two places left while the
\* inference thread is at its put() and the caller of get_latest_result at
\* its get(), the result queue holding one result
C31_Witness ==
    /\ cap_pc = "put" /\ Len(frame_queue) = K - 2
    /\ proc_pc = "put"
    /\ take_pc = "get" /\ Len(result_queue) = 1

\* C38: every frame that is in the frame queue is later out of it, taken by
\* the inference thread; so a full frame queue has room again later.
C38_FramesAreDrained ==
    /\ \A f \in 1..DrainFrames :
          (\E i \in 1..Len(frame_queue) : frame_queue[i] = f)
              ~> (last_got >= f /\ \A i \in 1..Len(frame_queue) : frame_queue[i] # f)
    /\ (Len(frame_queue) = K) ~> (Len(frame_queue) < K)

\* the frame queue is full and the next frame is about to be skipped, before
\* the inference thread took any frame
C38_Witness ==
    /\ running
    /\ Len(frame_queue) = K
    /\ cap_pc = "check_full"
    /\ last_got = 0

\* no thread of the VideoProcessor is alive: start() was not called yet, or
\* both threads ended, which they do only after a stop()
NoThreadAlive ==
    \/ cap_pc = "unstarted" /\ proc_pc = "unstarted"
    \/ cap_pc = "exit" /\ proc_pc = "exit"

\* C39: a stop() called before start(), or again after a stop() that
\* completed, can take each of its steps at once (it does not wait), and every
\* step of a stop() leaves running false and both queues as they were.
C39_StopIdempotent ==
    /\ [](NoThreadAlive =>
            /\ stop_pc \in {"idle", "done"} => ENABLED Stop
            /\ stop_pc = "release" => ENABLED StopRelease
            /\ stop_pc = "join_capture" => ENABLED StopJoinCapture
            /\ stop_pc = "join_process" => ENABLED StopJoinProcess)
    /\ [](stop_pc \in {"release", "join_capture", "join_process"} => ~running)
    /\ [][stop_pc' # stop_pc =>
            /\ ~running'
            /\ frame_queue' = frame_queue
            /\ result_queue' = result_queue
            /\ cap_pc' = cap_pc /\ proc_pc' = proc_pc]_vars
    /\ [][(stop_pc' # stop_pc /\ capture \in {"none", "released"}) =>
            capture' = capture]_vars

\* a second stop() under way after one that completed and released the
\* handle: both threads ended, a result is still queued
C39_Witness ==
    /\ stop_pc = "join_capture"
    /\ capture = "released"
    /\ cap_pc = "exit" /\ proc_pc = "exit"
    /\ Len(result_queue) > 0
    /\ ~running

====
